---- MODULE Spec2Model ----
(***************************************************************************)
(* Model of pypowsybl's Network class (src/pypowsybl/network.py): the      *)
(* per-unit context, the per-category get_<category> / update_<category>   *)
(* conversions, the typed column dispatcher update_elements, and the       *)
(* variant methods with the engine's variant manager behind them.          *)
(*                                                                         *)
(* Numbers.  The code computes on IEEE doubles; the model computes on the  *)
(* exact values q * sqrt(3)^k (q rational, k in {0,1}), which are closed   *)
(* under the only arithmetic the code performs (products and quotients).   *)
(* A number is <<n, d, k>> = (n/d) * sqrt(3)^k with d >= 0:                *)
(*   d = 0, n # 0  is +/- infinity (x / 0 in numpy),                       *)
(*   d = 0, n = 0  is NaN, which is also pandas' missing-value marker.     *)
(* Rounding is abstracted away, as the specification's "within floating    *)
(* rounding" allows; every scale factor, its order of evaluation and the   *)
(* division-by-zero outcomes are kept.                                     *)
(***************************************************************************)
EXTENDS Integers, Sequences, FiniteSets, TLC

VARIABLES
    per_unit,    \* Network.per_unit
    nominal_s,   \* Network.nominal_s
    variants,    \* the engine's state behind Network._handle: variant id -> tables
    working,     \* the engine's working variant id
    last,        \* the most recent call on the Network: its arguments and outcome
    focus,       \* the element type the client of this run reads and writes
    updates,     \* number of update_<category> calls made so far
    peer         \* a second Network object: its attributes

vars == <<per_unit, nominal_s, variants, working, last, focus, updates, peer>>

----------------------------------------------------------------------------
(* Arithmetic *)

Abs(x) == IF x < 0 THEN -x ELSE x

Sgn(x) == IF x < 0 THEN -1 ELSE IF x = 0 THEN 0 ELSE 1

(* the element of the singleton S; The({e(x) : x \in {v}}) names the value  *)
(* v once, as a statement assigns an intermediate result once               *)
The(S) == CHOOSE x \in S : S = {x}

(* Euclid's algorithm on naturals *)
GCD(a, b) ==
    LET gcd[x \in Nat, y \in Nat] == IF y = 0 THEN x ELSE gcd[y, x % y]
    IN  gcd[a, b]

NaN == <<0, 0, 0>>

(* canonical form: lowest terms, d >= 0, zero = <<0,1,0>>, inf = <<+-1,0,0>> *)
Norm(n, d, k) ==
    The({IF y = 0 THEN <<Sgn(x), 0, 0>>
         ELSE IF x = 0 THEN <<0, 1, 0>>
         ELSE The({<<(s * x) \div g, (s * y) \div g, k>> :
                     s \in {IF y < 0 THEN -1 ELSE 1}, g \in {GCD(Abs(x), Abs(y))}})
         : x \in {n}, y \in {d}})

Q(n, d) == Norm(n, d, 0)

R(n) == <<n, 1, 0>>

(* product of canonical numbers, cancelling across the two fractions before *)
(* multiplying; sqrt3 * sqrt3 = 3                                           *)
Mul(a, b) ==
    The({IF x[2] = 0 \/ y[2] = 0 THEN <<Sgn(x[1] * y[1]), 0, 0>>
         ELSE IF x[1] = 0 \/ y[1] = 0 THEN <<0, 1, 0>>
         ELSE The({IF x[3] + y[3] < 2 THEN <<n, d, x[3] + y[3]>>
                   ELSE IF d % 3 = 0 THEN <<n, d \div 3, 0>>
                   ELSE <<3 * n, d, 0>> :
                     n \in {(x[1] \div GCD(Abs(x[1]), y[2])) * (y[1] \div GCD(Abs(y[1]), x[2]))},
                     d \in {(x[2] \div GCD(Abs(y[1]), x[2])) * (y[2] \div GCD(Abs(x[1]), y[2]))}})
         : x \in {a}, y \in {b}})

(* 1 / ((n/d) sqrt3^k) = (d/n) sqrt3^(-k) = (d/(3n)) sqrt3 when k = 1 *)
Inv(b) ==
    The({IF y[2] = 0 THEN (IF y[1] = 0 THEN NaN ELSE <<0, 1, 0>>)
         ELSE IF y[1] = 0 THEN <<1, 0, 0>>
         ELSE IF y[3] = 0 THEN <<Sgn(y[1]) * y[2], Abs(y[1]), 0>>
         ELSE IF y[2] % 3 = 0 THEN <<Sgn(y[1]) * (y[2] \div 3), Abs(y[1]), 1>>
         ELSE <<Sgn(y[1]) * y[2], 3 * Abs(y[1]), 1>>
         : y \in {b}})

Div(a, b) ==
    The({IF y[2] # 0 /\ y[1] = 0 THEN <<Sgn(x[1]), 0, 0>>   \* x / 0 : +-inf or NaN
         ELSE Mul(x, Inv(y))
         : x \in {a}, y \in {b}})

Sq(a) == Mul(a, a)

----------------------------------------------------------------------------
(* pandas data frames.  A frame has a row index (a sequence of row          *)
(* identifiers), a sequence of column names and one cell per (row, column). *)
(* err # "none" stands for the exception that aborted the computation that  *)
(* was producing the frame; every later step of that computation is skipped.*)

Range(s) == {s[i] : i \in 1..Len(s)}

Frame(index, columns, data) ==
    [index |-> index, columns |-> columns, data |-> data, err |-> "none"]

Raise(df, e) == [df EXCEPT !.err = e]

Ok(df) == df.err = "none"

HasCol(df, c) == c \in Range(df.columns)

(* df[c] : the Series of column c, as a function of the row identifier *)
Series(df, c) == [i \in Range(df.index) |-> df.data[i][c]]

(* pd.merge(df, right, left_on=on, right_index=True): inner join of df with *)
(* the Series `right` (named `name`) on df[on] = right.index; the rows of   *)
(* df keep their order and their index, rows without a partner are dropped. *)
MergeOn(df, right, on, name) ==
    The({IF ~Ok(f) THEN f
         ELSE IF ~HasCol(f, on) THEN Raise(f, "KeyError")
         ELSE LET keep == SelectSeq(f.index, LAMBDA i : f.data[i][on] \in DOMAIN r)
              IN  [f EXCEPT
                     !.index = keep,
                     !.columns = Append(f.columns, name),
                     !.data = [i \in Range(keep) |->
                                 f.data[i] @@ (name :> r[f.data[i][on]])]]
         : f \in {df}, r \in {right}})

(* pd.merge(df, right, left_index=True, right_index=True): inner join on    *)
(* the row identifiers.                                                     *)
MergeIndex(df, right, name) ==
    The({IF ~Ok(f) THEN f
         ELSE LET keep == SelectSeq(f.index, LAMBDA i : i \in DOMAIN r)
              IN  [f EXCEPT
                     !.index = keep,
                     !.columns = Append(f.columns, name),
                     !.data = [i \in Range(keep) |-> f.data[i] @@ (name :> r[i])]]
         : f \in {df}, r \in {right}})

(* df.rename(columns={old: new}) *)
Rename(df, old, new) ==
    The({IF ~Ok(f) THEN f
         ELSE [f EXCEPT
                 !.columns = [k \in 1..Len(f.columns) |->
                                 IF f.columns[k] = old THEN new ELSE f.columns[k]],
                 !.data = [i \in DOMAIN f.data |->
                             [c \in ((DOMAIN f.data[i]) \ {old}) \cup {new} |->
                                 IF c = new THEN f.data[i][old] ELSE f.data[i][c]]]]
         : f \in {df}})

(* df.drop(cols, axis=1) *)
Drop(df, cols) ==
    The({IF ~Ok(f) THEN f
         ELSE IF ~(cols \subseteq Range(f.columns)) THEN Raise(f, "KeyError")
         ELSE [f EXCEPT
                 !.columns = SelectSeq(f.columns, LAMBDA c : c \notin cols),
                 !.data = [i \in DOMAIN f.data |->
                             [c \in (DOMAIN f.data[i]) \ cols |-> f.data[i][c]]]]
         : f \in {df}})

(* df[cols] : the caller's selection of columns of a frame *)
Select(df, cols) ==
    The({[f EXCEPT
            !.columns = SelectSeq(f.columns, LAMBDA c : c \in cols),
            !.data = [i \in DOMAIN f.data |->
                        [c \in (DOMAIN f.data[i]) \cap cols |-> f.data[i][c]]]]
         : f \in {df}})

----------------------------------------------------------------------------
(* The engine behind the handle (_pypowsybl).  Each variant holds one table *)
(* per element type, in SI units.                                           *)

INITIAL_VARIANT == "InitialState"

ElementType ==
    {"BUS", "GENERATOR", "LOAD", "BATTERY", "LINE", "TWO_WINDINGS_TRANSFORMER",
     "THREE_WINDINGS_TRANSFORMER", "SHUNT_COMPENSATOR", "DANGLING_LINE",
     "LCC_CONVERTER_STATION", "VSC_CONVERTER_STATION", "STATIC_VAR_COMPENSATOR",
     "VOLTAGE_LEVEL", "BUSBAR_SECTION", "SUBSTATION", "HVDC_LINE", "SWITCH",
     "RATIO_TAP_CHANGER_STEP", "PHASE_TAP_CHANGER_STEP", "RATIO_TAP_CHANGER",
     "PHASE_TAP_CHANGER", "REACTIVE_CAPABILITY_CURVE_POINT"}

(* The network the handle is created with: three voltage levels of different *)
(* nominal voltage, a line L1 between two of them, a line L2 inside one.     *)
InitialNetwork ==
    [VOLTAGE_LEVEL |-> Frame(<<"VL1", "VL2", "VL3">>,
        <<"nominal_v", "high_voltage_limit", "low_voltage_limit">>,
        [VL1 |-> [nominal_v |-> R(400), high_voltage_limit |-> R(440), low_voltage_limit |-> R(390)],
         VL2 |-> [nominal_v |-> R(100), high_voltage_limit |-> R(110), low_voltage_limit |-> R(95)],
         VL3 |-> [nominal_v |-> R(20), high_voltage_limit |-> R(22), low_voltage_limit |-> R(18)]]),
     BUS |-> Frame(<<"B1", "B2">>, <<"v_mag", "v_angle", "voltage_level_id">>,
        [B1 |-> [v_mag |-> R(420), v_angle |-> R(2), voltage_level_id |-> "VL1"],
         B2 |-> [v_mag |-> R(96), v_angle |-> R(-3), voltage_level_id |-> "VL2"]]),
     GENERATOR |-> Frame(<<"GEN", "GEN2">>,
        <<"target_p", "min_p", "max_p", "min_q", "max_q", "target_v", "target_q",
          "voltage_regulator_on", "p", "q", "i", "voltage_level_id">>,
        [GEN  |-> [target_p |-> R(607), min_p |-> R(-9999), max_p |-> R(9999),
                   min_q |-> R(-9999), max_q |-> R(9999), target_v |-> R(410),
                   target_q |-> R(301), voltage_regulator_on |-> TRUE,
                   p |-> R(-302), q |-> R(-112), i |-> R(3164), voltage_level_id |-> "VL1"],
         GEN2 |-> [target_p |-> R(120), min_p |-> R(0), max_p |-> R(500),
                   min_q |-> R(-100), max_q |-> R(100), target_v |-> R(104),
                   target_q |-> R(40), voltage_regulator_on |-> TRUE,
                   p |-> R(-120), q |-> R(-40), i |-> R(325), voltage_level_id |-> "VL2"]]),
     LOAD |-> Frame(<<"LOAD">>, <<"p0", "q0", "p", "q", "i", "voltage_level_id">>,
        [LOAD |-> [p0 |-> R(600), q0 |-> R(200), p |-> R(600), q |-> R(200),
                   i |-> R(1623), voltage_level_id |-> "VL2"]]),
     BATTERY |-> Frame(<<"BAT">>, <<"max_p", "min_p", "p0", "q0", "p", "q", "voltage_level_id">>,
        [BAT |-> [max_p |-> R(9999), min_p |-> R(-9999), p0 |-> R(50), q0 |-> R(20),
                  p |-> R(-50), q |-> R(-20), voltage_level_id |-> "VL1"]]),
     LINE |-> Frame(<<"L1", "L2">>,
        <<"r", "x", "g1", "b1", "g2", "b2", "p1", "q1", "i1", "p2", "q2", "i2",
          "voltage_level1_id", "voltage_level2_id">>,
        [L1 |-> [r |-> R(3), x |-> R(33), g1 |-> Q(1, 1000), b1 |-> Q(1, 500),
                 g2 |-> Q(1, 1000), b2 |-> Q(1, 500), p1 |-> R(110), q1 |-> R(190),
                 i1 |-> R(317), p2 |-> R(-109), q2 |-> R(-184), i2 |-> R(549),
                 voltage_level1_id |-> "VL1", voltage_level2_id |-> "VL2"],
         L2 |-> [r |-> R(1), x |-> R(13), g1 |-> R(0), b1 |-> Q(1, 250),
                 g2 |-> R(0), b2 |-> Q(1, 250), p1 |-> R(240), q1 |-> R(2),
                 i1 |-> R(346), p2 |-> R(-240), q2 |-> R(3), i2 |-> R(346),
                 voltage_level1_id |-> "VL1", voltage_level2_id |-> "VL1"]]),
     TWO_WINDINGS_TRANSFORMER |-> Frame(<<"TWT">>,
        <<"r", "x", "g", "b", "rated_u1", "rated_u2", "rated_s", "p1", "q1", "i1",
          "p2", "q2", "i2", "voltage_level1_id", "voltage_level2_id">>,
        [TWT |-> [r |-> R(2), x |-> R(14), g |-> Q(1, 2000), b |-> Q(1, 4000),
                  rated_u1 |-> R(380), rated_u2 |-> R(103), rated_s |-> NaN,
                  p1 |-> R(-80), q1 |-> R(-10), i1 |-> R(116), p2 |-> R(80),
                  q2 |-> R(5), i2 |-> R(205),
                  voltage_level1_id |-> "VL1", voltage_level2_id |-> "VL2"]]),
     THREE_WINDINGS_TRANSFORMER |-> Frame(<<"T3">>,
        <<"rated_u0", "r1", "x1", "g1", "b1", "rated_u1", "p1", "q1", "i1",
          "r2", "x2", "g2", "b2", "rated_u2", "p2", "q2", "i2",
          "r3", "x3", "g3", "b3", "rated_u3", "p3", "q3", "i3",
          "voltage_level1_id", "voltage_level2_id", "voltage_level3_id">>,
        [T3 |-> [rated_u0 |-> R(132),
                 r1 |-> R(17), x1 |-> R(18), g1 |-> Q(1, 100), b1 |-> Q(1, 50),
                 rated_u1 |-> R(390), p1 |-> R(60), q1 |-> R(10), i1 |-> R(88),
                 r2 |-> R(5), x2 |-> R(6), g2 |-> Q(1, 200), b2 |-> Q(1, 80),
                 rated_u2 |-> R(98), p2 |-> R(-40), q2 |-> R(-6), i2 |-> R(103),
                 r3 |-> R(7), x3 |-> R(8), g3 |-> Q(1, 400), b3 |-> Q(1, 160),
                 rated_u3 |-> R(21), p3 |-> R(-20), q3 |-> R(-4), i3 |-> R(577),
                 voltage_level1_id |-> "VL1", voltage_level2_id |-> "VL2",
                 voltage_level3_id |-> "VL3"]]),
     SHUNT_COMPENSATOR |-> Frame(<<"SHUNT">>, <<"p", "q", "i", "voltage_level_id">>,
        [SHUNT |-> [p |-> NaN, q |-> R(1920), i |-> R(2771), voltage_level_id |-> "VL1"]]),
     DANGLING_LINE |-> Frame(<<"DL">>,
        <<"r", "x", "g", "b", "p0", "q0", "p", "q", "i", "voltage_level_id">>,
        [DL |-> [r |-> R(10), x |-> R(1), g |-> Q(1, 10000), b |-> Q(1, 100000),
                 p0 |-> R(50), q0 |-> R(30), p |-> R(55), q |-> R(31), i |-> R(162),
                 voltage_level_id |-> "VL2"]]),
     LCC_CONVERTER_STATION |-> Frame(<<"LCC1">>,
        <<"power_factor", "loss_factor", "p", "q", "i", "voltage_level_id">>,
        [LCC1 |-> [power_factor |-> Q(3, 5), loss_factor |-> Q(11, 10), p |-> R(81),
                   q |-> R(108), i |-> R(195), voltage_level_id |-> "VL1"]]),
     VSC_CONVERTER_STATION |-> Frame(<<"VSC1">>,
        <<"voltage_setpoint", "reactive_power_setpoint", "voltage_regulator_on",
          "p", "q", "i", "voltage_level_id">>,
        [VSC1 |-> [voltage_setpoint |-> R(404), reactive_power_setpoint |-> R(500),
                   voltage_regulator_on |-> TRUE, p |-> R(10), q |-> R(-512),
                   i |-> R(739), voltage_level_id |-> "VL1"]]),
     STATIC_VAR_COMPENSATOR |-> Frame(<<"SVC">>,
        <<"voltage_setpoint", "reactive_power_setpoint", "p", "q", "i", "voltage_level_id">>,
        [SVC |-> [voltage_setpoint |-> R(102), reactive_power_setpoint |-> R(35),
                  p |-> R(0), q |-> R(-13), i |-> R(32), voltage_level_id |-> "VL2"]]),
     BUSBAR_SECTION |-> Frame(<<"BBS">>, <<"v", "angle", "voltage_level_id">>,
        [BBS |-> [v |-> R(399), angle |-> R(2), voltage_level_id |-> "VL1"]]),
     SUBSTATION |-> Frame(<<"S1">>, <<"country">>, [S1 |-> [country |-> "FR"]]),
     HVDC_LINE |-> Frame(<<"HVDC1">>,
        <<"converters_mode", "active_power_setpoint", "max_p", "nominal_v", "r">>,
        [HVDC1 |-> [converters_mode |-> "SIDE_1_RECTIFIER_SIDE_2_INVERTER",
                    active_power_setpoint |-> R(10), max_p |-> R(300),
                    nominal_v |-> R(400), r |-> R(1)]]),
     SWITCH |-> Frame(<<"SW">>, <<"open", "kind", "retained">>,
        [SW |-> [open |-> TRUE, kind |-> "BREAKER", retained |-> TRUE]]),
     RATIO_TAP_CHANGER_STEP |-> Frame(<<"TWT_0">>, <<"rho", "r", "x">>,
        [TWT_0 |-> [rho |-> Q(17, 20), r |-> R(0), x |-> R(0)]]),
     PHASE_TAP_CHANGER_STEP |-> Frame(<<"TWT_0">>, <<"rho", "alpha">>,
        [TWT_0 |-> [rho |-> R(1), alpha |-> R(-42)]]),
     RATIO_TAP_CHANGER |-> Frame(<<"TWT">>, <<"tap", "target_v">>,
        [TWT |-> [tap |-> R(1), target_v |-> R(101)]]),
     PHASE_TAP_CHANGER |-> Frame(<<"TWT">>, <<"tap", "regulation_value">>,
        [TWT |-> [tap |-> R(15), regulation_value |-> R(930)]]),
     REACTIVE_CAPABILITY_CURVE_POINT |-> Frame(<<"GEN_0", "GEN_1">>,
        <<"p", "min_q", "max_q">>,
        [GEN_0 |-> [p |-> R(0), min_q |-> R(-769), max_q |-> R(860)],
         GEN_1 |-> [p |-> R(100), min_q |-> R(-864), max_q |-> R(946)]])]

(* _pypowsybl.create_network_elements_series_array + the data frame built   *)
(* from it: the table of the working variant.                               *)
get_elements(element_type) == variants[working][element_type]

----------------------------------------------------------------------------
(* The statements of the per-unit conversions.  A method body is the        *)
(* sequence of its statements, run in order on the frame:                   *)
(*   <<"/=", c, base, nv>>     df[c] /= base(df[nv])                        *)
(*   <<"*=", c, base, nv>>     df[c] *= base(df[nv])                        *)
(*   <<"merge", on, t, c>>     df = pd.merge(df, self.get_<t>()[c],         *)
(*                                           left_on=on, right_index=True)  *)
(*   <<"merge_index", t, c>>   df = pd.merge(df, self.get_<t>()[c],         *)
(*                                     left_index=True, right_index=True)   *)
(*   <<"rename", old, new>>    df.rename(columns={old: new}, inplace=True)  *)
(*   <<"drop", cols>>          df = df.drop(cols, axis=1)                   *)

sqrt3 == <<1, 1, 1>>

(* self.nominal_s *)
PowerBase(row, nv) == R(nominal_s)

(* self.nominal_s * 10 ** 3 / (self.sqrt3 * df[nv]) *)
CurrentBase(row, nv) == Div(R(nominal_s * 1000), Mul(sqrt3, row[nv]))

(* df[nv] ** 2 / (self.nominal_s * 10 ** 3) *)
ImpedanceBase(row, nv) == Div(Sq(row[nv]), R(nominal_s * 1000))

(* (self.nominal_s * 10 ** 3) / df[nv] ** 2 *)
AdmittanceBase(row, nv) == Div(R(nominal_s * 1000), Sq(row[nv]))

(* df[nv] *)
VoltageBase(row, nv) == row[nv]

(* hvdc_lines['nominal_v'] ** 2 / self.nominal_s *)
HvdcImpedanceBase(row, nv) == Div(Sq(row[nv]), R(nominal_s))

(* the right-hand side of a /= or *= statement, evaluated on one row *)
Base(kind, row, nv) ==
    CASE kind = "PowerBase" -> PowerBase(row, nv)
      [] kind = "CurrentBase" -> CurrentBase(row, nv)
      [] kind = "ImpedanceBase" -> ImpedanceBase(row, nv)
      [] kind = "AdmittanceBase" -> AdmittanceBase(row, nv)
      [] kind = "VoltageBase" -> VoltageBase(row, nv)
      [] kind = "HvdcImpedanceBase" -> HvdcImpedanceBase(row, nv)

(* df[c] /= base or df[c] *= base, row by row; KeyError when df has no      *)
(* column c                                                                 *)
Scale(df, op, c, kind, nv) ==
    The({IF ~Ok(f) THEN f
         ELSE IF ~HasCol(f, c) THEN Raise(f, "KeyError")
         ELSE [f EXCEPT !.data =
                 [i \in DOMAIN f.data |->
                     The({[row EXCEPT ![c] = IF op = "/="
                                            THEN Div(row[c], Base(kind, row, nv))
                                            ELSE Mul(row[c], Base(kind, row, nv))] :
                            row \in {f.data[i]}})]]
         : f \in {df}})

(* the same statement for each column of cols *)
Each(op, cols, kind, nv) == [k \in 1..Len(cols) |-> <<op, cols[k], kind, nv>>]

RECURSIVE GetTable(_)

(* one statement *)
Step(df, st) ==
    CASE st[1] \in {"/=", "*="} -> Scale(df, st[1], st[2], st[3], st[4])
      [] st[1] = "merge" -> MergeOn(df, Series(GetTable(st[3]), st[4]), st[2], st[4])
      [] st[1] = "merge_index" -> MergeIndex(df, Series(GetTable(st[2]), st[3]), st[3])
      [] st[1] = "rename" -> Rename(df, st[2], st[3])
      [] st[1] = "drop" -> Drop(df, st[2])

RECURSIVE Run(_, _)
(* the statements of body, in order: the first half of the body, then the   *)
(* second half on the frame the first half leaves                           *)
Run(df, body) ==
    The({CASE Len(b) = 0 -> f
           [] Len(b) = 1 -> Step(f, b[1])
           [] Len(b) > 1 -> Run(Run(f, SubSeq(b, 1, Len(b) \div 2)),
                                SubSeq(b, Len(b) \div 2 + 1, Len(b)))
         : f \in {df}, b \in {body}})

----------------------------------------------------------------------------
(* Per-unit read path: Network.get_<category>                               *)

(* a get_voltage_levels that reads the table the network was loaded with *)
get_voltage_levels_as_loaded ==
    IF per_unit
    THEN Run(InitialNetwork["VOLTAGE_LEVEL"],
             <<<<"/=", "high_voltage_limit", "VoltageBase", "nominal_v">>,
               <<"/=", "low_voltage_limit", "VoltageBase", "nominal_v">>>>)
    ELSE InitialNetwork["VOLTAGE_LEVEL"]

get_voltage_levels ==
    IF per_unit
    THEN Run(get_elements("VOLTAGE_LEVEL"),
             <<<<"/=", "high_voltage_limit", "VoltageBase", "nominal_v">>,
               <<"/=", "low_voltage_limit", "VoltageBase", "nominal_v">>>>)
    ELSE get_elements("VOLTAGE_LEVEL")

get_buses ==
    IF per_unit
    THEN Run(get_elements("BUS"),
             <<<<"merge", "voltage_level_id", "VOLTAGE_LEVEL", "nominal_v">>,
               <<"/=", "v_mag", "VoltageBase", "nominal_v">>,
               <<"drop", {"nominal_v"}>>>>)
    ELSE get_elements("BUS")

get_generators ==
    IF per_unit
    THEN Run(get_elements("GENERATOR"),
             Each("/=", <<"target_p", "target_q", "min_p", "min_q", "max_p", "max_q",
                          "p", "q">>, "PowerBase", "")
             \o <<<<"merge", "voltage_level_id", "VOLTAGE_LEVEL", "nominal_v">>,
                  <<"/=", "target_v", "VoltageBase", "nominal_v">>,
                  <<"/=", "i", "CurrentBase", "nominal_v">>,
                  <<"drop", {"nominal_v"}>>>>)
    ELSE get_elements("GENERATOR")

get_loads ==
    IF per_unit
    THEN Run(get_elements("LOAD"),
             Each("/=", <<"p0", "q0", "p", "q">>, "PowerBase", "")
             \o <<<<"merge", "voltage_level_id", "VOLTAGE_LEVEL", "nominal_v">>,
                  <<"/=", "i", "CurrentBase", "nominal_v">>,
                  <<"drop", {"nominal_v"}>>>>)
    ELSE get_elements("LOAD")

get_batteries == get_elements("BATTERY")

get_lines ==
    IF per_unit
    THEN Run(get_elements("LINE"),
             Each("/=", <<"p1", "p2", "q1", "q2">>, "PowerBase", "")
             \o <<<<"merge", "voltage_level1_id", "VOLTAGE_LEVEL", "nominal_v">>>>
             \o Each("/=", <<"i1", "i2">>, "CurrentBase", "nominal_v")
             \o Each("/=", <<"r", "x">>, "ImpedanceBase", "nominal_v")
             \o Each("/=", <<"g1", "g2", "b1", "b2">>, "AdmittanceBase", "nominal_v")
             \o <<<<"drop", {"nominal_v"}>>>>)
    ELSE get_elements("LINE")

get_2_windings_transformers ==
    IF per_unit
    THEN Run(get_elements("TWO_WINDINGS_TRANSFORMER"),
             Each("/=", <<"p1", "q1", "p2", "q2">>, "PowerBase", "")
             \o <<<<"merge", "voltage_level1_id", "VOLTAGE_LEVEL", "nominal_v">>,
                  <<"rename", "nominal_v", "nominal_v1">>,
                  <<"merge", "voltage_level2_id", "VOLTAGE_LEVEL", "nominal_v">>,
                  <<"rename", "nominal_v", "nominal_v2">>,
                  <<"/=", "i1", "CurrentBase", "nominal_v1">>,
                  <<"/=", "i2", "CurrentBase", "nominal_v2">>>>
             \o Each("/=", <<"r", "x">>, "ImpedanceBase", "nominal_v2")
             \o Each("/=", <<"g", "b">>, "AdmittanceBase", "nominal_v2")
             \o <<<<"/=", "rated_u1", "VoltageBase", "nominal_v1">>,
                  <<"/=", "rated_u2", "VoltageBase", "nominal_v2">>,
                  <<"drop", {"nominal_v1", "nominal_v2"}>>>>)
    ELSE get_elements("TWO_WINDINGS_TRANSFORMER")

(* the r, x, g, b statements for leg k with the side-2 voltage of the       *)
(* two-winding rule                                                         *)
Leg3_on_side_2(k) ==
    Each("/=", <<"r" \o k, "x" \o k>>, "ImpedanceBase", "nominal_v2")
    \o Each("/=", <<"g" \o k, "b" \o k>>, "AdmittanceBase", "nominal_v2")

(* the r, x, g, b statements of get_3_windings_transformers for leg k *)
Leg3(k) ==
    Each("/=", <<"r" \o k, "x" \o k>>, "ImpedanceBase", "nominal_v" \o k)
    \o Each("/=", <<"g" \o k, "b" \o k>>, "AdmittanceBase", "nominal_v" \o k)

get_3_windings_transformers ==
    IF per_unit
    THEN Run(get_elements("THREE_WINDINGS_TRANSFORMER"),
             Each("/=", <<"p1", "q1", "p2", "q2", "p3", "q3">>, "PowerBase", "")
             \o <<<<"merge", "voltage_level1_id", "VOLTAGE_LEVEL", "nominal_v">>,
                  <<"rename", "nominal_v", "nominal_v1">>,
                  <<"merge", "voltage_level2_id", "VOLTAGE_LEVEL", "nominal_v">>,
                  <<"rename", "nominal_v", "nominal_v2">>,
                  <<"merge", "voltage_level3_id", "VOLTAGE_LEVEL", "nominal_v">>,
                  <<"rename", "nominal_v", "nominal_v3">>,
                  <<"/=", "i1", "CurrentBase", "nominal_v1">>,
                  <<"/=", "i2", "CurrentBase", "nominal_v2">>,
                  <<"/=", "i3", "CurrentBase", "nominal_v3">>>>
             \o Leg3("1") \o Leg3("2") \o Leg3("3")
             \o <<<<"/=", "rated_u1", "VoltageBase", "nominal_v1">>,
                  <<"/=", "rated_u2", "VoltageBase", "nominal_v2">>,
                  <<"/=", "rated_u3", "VoltageBase", "nominal_v3">>,
                  <<"drop", {"nominal_v1", "nominal_v2", "nominal_v3"}>>>>)
    ELSE get_elements("THREE_WINDINGS_TRANSFORMER")

get_shunt_compensators ==
    IF per_unit
    THEN Run(get_elements("SHUNT_COMPENSATOR"), Each("/=", <<"p", "q">>, "PowerBase", ""))
    ELSE get_elements("SHUNT_COMPENSATOR")

get_dangling_lines ==
    IF per_unit
    THEN Run(get_elements("DANGLING_LINE"),
             Each("/=", <<"p", "q", "p0", "q0">>, "PowerBase", "")
             \o <<<<"merge", "voltage_level_id", "VOLTAGE_LEVEL", "nominal_v">>,
                  <<"/=", "i", "CurrentBase", "nominal_v">>>>
             \o Each("/=", <<"r", "x", "g", "b">>, "ImpedanceBase", "nominal_v")
             \o <<<<"drop", {"nominal_v"}>>>>)
    ELSE get_elements("DANGLING_LINE")

get_lcc_converter_stations ==
    IF per_unit
    THEN Run(get_elements("LCC_CONVERTER_STATION"),
             Each("/=", <<"p", "q">>, "PowerBase", "")
             \o <<<<"merge", "voltage_level_id", "VOLTAGE_LEVEL", "nominal_v">>,
                  <<"/=", "i", "CurrentBase", "nominal_v">>,
                  <<"drop", {"nominal_v"}>>>>)
    ELSE get_elements("LCC_CONVERTER_STATION")

get_vsc_converter_stations ==
    IF per_unit
    THEN Run(get_elements("VSC_CONVERTER_STATION"),
             Each("/=", <<"p", "q", "reactive_power_setpoint">>, "PowerBase", "")
             \o <<<<"merge", "voltage_level_id", "VOLTAGE_LEVEL", "nominal_v">>,
                  <<"/=", "i", "CurrentBase", "nominal_v">>,
                  <<"/=", "voltage_setpoint", "VoltageBase", "nominal_v">>,
                  <<"drop", {"nominal_v"}>>>>)
    ELSE get_elements("VSC_CONVERTER_STATION")

get_static_var_compensators ==
    IF per_unit
    THEN Run(get_elements("STATIC_VAR_COMPENSATOR"),
             Each("/=", <<"p", "q", "reactive_power_setpoint">>, "PowerBase", "")
             \o <<<<"merge", "voltage_level_id", "VOLTAGE_LEVEL", "nominal_v">>,
                  <<"/=", "i", "CurrentBase", "nominal_v">>,
                  <<"/=", "voltage_setpoint", "VoltageBase", "nominal_v">>,
                  <<"drop", {"nominal_v"}>>>>)
    ELSE get_elements("STATIC_VAR_COMPENSATOR")

get_busbar_sections ==
    IF per_unit
    THEN Run(get_elements("BUSBAR_SECTION"),
             <<<<"merge", "voltage_level_id", "VOLTAGE_LEVEL", "nominal_v">>,
               <<"/=", "v", "VoltageBase", "nominal_v">>,
               <<"drop", {"nominal_v"}>>>>)
    ELSE get_elements("BUSBAR_SECTION")

get_substations == get_elements("SUBSTATION")

get_hvdc_lines ==
    IF per_unit
    THEN Run(get_elements("HVDC_LINE"),
             Each("/=", <<"max_p", "active_power_setpoint">>, "PowerBase", "")
             \o <<<<"/=", "r", "HvdcImpedanceBase", "nominal_v">>>>)
    ELSE get_elements("HVDC_LINE")

get_switches == get_elements("SWITCH")

get_ratio_tap_changer_steps == get_elements("RATIO_TAP_CHANGER_STEP")

get_phase_tap_changer_steps == get_elements("PHASE_TAP_CHANGER_STEP")

get_ratio_tap_changers == get_elements("RATIO_TAP_CHANGER")

get_phase_tap_changers == get_elements("PHASE_TAP_CHANGER")

get_reactive_capability_curve_points ==
    IF per_unit
    THEN Run(get_elements("REACTIVE_CAPABILITY_CURVE_POINT"),
             Each("/=", <<"p", "min_q", "max_q">>, "PowerBase", ""))
    ELSE get_elements("REACTIVE_CAPABILITY_CURVE_POINT")

(* get_<category>() by element type *)
GetTable(t) ==
    CASE t = "BUS" -> get_buses
      [] t = "GENERATOR" -> get_generators
      [] t = "LOAD" -> get_loads
      [] t = "BATTERY" -> get_batteries
      [] t = "LINE" -> get_lines
      [] t = "TWO_WINDINGS_TRANSFORMER" -> get_2_windings_transformers
      [] t = "THREE_WINDINGS_TRANSFORMER" -> get_3_windings_transformers
      [] t = "SHUNT_COMPENSATOR" -> get_shunt_compensators
      [] t = "DANGLING_LINE" -> get_dangling_lines
      [] t = "LCC_CONVERTER_STATION" -> get_lcc_converter_stations
      [] t = "VSC_CONVERTER_STATION" -> get_vsc_converter_stations
      [] t = "STATIC_VAR_COMPENSATOR" -> get_static_var_compensators
      [] t = "VOLTAGE_LEVEL" -> get_voltage_levels
      [] t = "BUSBAR_SECTION" -> get_busbar_sections
      [] t = "SUBSTATION" -> get_substations
      [] t = "HVDC_LINE" -> get_hvdc_lines
      [] t = "SWITCH" -> get_switches
      [] t = "RATIO_TAP_CHANGER_STEP" -> get_ratio_tap_changer_steps
      [] t = "PHASE_TAP_CHANGER_STEP" -> get_phase_tap_changer_steps
      [] t = "RATIO_TAP_CHANGER" -> get_ratio_tap_changers
      [] t = "PHASE_TAP_CHANGER" -> get_phase_tap_changers
      [] t = "REACTIVE_CAPABILITY_CURVE_POINT" -> get_reactive_capability_curve_points

----------------------------------------------------------------------------
(* Write path: the typed dispatcher update_elements and the engine's bulk   *)
(* write primitives.                                                        *)

BooleanColumns == {"voltage_regulator_on", "open", "retained"}

IntColumns == {"tap"}

StringColumns == {"voltage_level_id", "voltage_level1_id", "voltage_level2_id",
                  "voltage_level3_id", "country", "converters_mode"}

(* columns whose declared type is none of string, double, int, boolean *)
OtherColumns == {"kind"}

(* _pypowsybl.get_series_type: 0 string, 1 double, 2 int, 3 boolean, and a  *)
(* code of its own (4) for a column of another declared type                *)
get_series_type(element_type, series_name) ==
    IF series_name \in StringColumns THEN 0
    ELSE IF series_name \in IntColumns THEN 2
    ELSE IF series_name \in BooleanColumns THEN 3
    ELSE IF series_name \in OtherColumns THEN 4
    ELSE 1

(* _pypowsybl.update_network_elements_with_<type>_series on one table of    *)
(* the working variant: the values of `series`, keyed by the row            *)
(* identifiers of `index`, become the values of column series_name; an      *)
(* identifier or a column the table does not have is an engine error.       *)
update_network_elements_with_series(table, series_name, index, series) ==
    The({IF \/ ~(Range(index) \subseteq Range(tb.index))
            \/ ~HasCol(tb, series_name)
         THEN Raise(tb, "PyPowsyblError")
         ELSE [tb EXCEPT !.data =
                 [i \in DOMAIN tb.data |->
                     IF i \in Range(index)
                     THEN [tb.data[i] EXCEPT ![series_name] = s[i]]
                     ELSE tb.data[i]]]
         : tb \in {table}, s \in {series}})

(* The engine behind one update_elements call: the table of the working     *)
(* variant, and the calls of the write primitives made so far.              *)
Engine(table, calls) == [table |-> table, calls |-> calls]

EngineCall(primitive, series_name, index, values) ==
    [primitive |-> primitive, series_name |-> series_name, index |-> index,
     values |-> values]

(* a value of the declared type: a number for a double column, a whole      *)
(* number for an int column.  (The model gives boolean and string columns   *)
(* values of their own type only; a number is a triple, a value that is no  *)
(* number a pair.)                                                          *)
Fits(series_type, value) ==
    CASE series_type = 1 -> Len(value) = 3
      [] series_type = 2 -> Len(value) = 3 /\ value[2] = 1 /\ value[3] = 0
      [] OTHER -> TRUE

(* the values handed to a typed primitive are of its type *)
Typed(series_type, index, series) ==
    \A k \in 1..Len(index) : Fits(series_type, series[index[k]])

(* _pypowsybl.update_network_elements_with_int_series: int values for an    *)
(* int column, bool values for a boolean one                                *)
update_network_elements_with_int_series(engine, series_name, index, series) ==
    Engine(IF series_name \in IntColumns /\ ~Typed(2, index, series)
           THEN Raise(engine.table, "TypeError")
           ELSE update_network_elements_with_series(engine.table, series_name, index, series),
           Append(engine.calls, EngineCall("int", series_name, index, series)))

(* _pypowsybl.update_network_elements_with_double_series *)
update_network_elements_with_double_series(engine, series_name, index, series) ==
    Engine(IF ~Typed(1, index, series)
           THEN Raise(engine.table, "TypeError")
           ELSE update_network_elements_with_series(engine.table, series_name, index, series),
           Append(engine.calls, EngineCall("double", series_name, index, series)))

(* _pypowsybl.update_network_elements_with_string_series *)
update_network_elements_with_string_series(engine, series_name, index, series) ==
    Engine(update_network_elements_with_series(engine.table, series_name, index, series),
           Append(engine.calls, EngineCall("string", series_name, index, series)))

(* raise PyPowsyblError(f'Unsupported series type {series_type}, element    *)
(* type: {element_type}, series_name: {series_name}')                       *)
UnsupportedSeriesType(series_type, element_type, series_name) ==
    "PyPowsyblError: Unsupported series type " \o ToString(series_type)
        \o ", element type: " \o element_type \o ", series_name: " \o series_name

(* the loop body with a conversion of the values to the declared type      *)
(* before the call: what is no number becomes NaN, a number that is not     *)
(* whole becomes 0                                                          *)
dispatch_coercing(engine, element_type, df, series_name) ==
    LET series_type == get_series_type(element_type, series_name)
        given == Series(df, series_name)
        series == [i \in DOMAIN given |->
                     IF Fits(series_type, given[i]) THEN given[i]
                     ELSE IF series_type = 1 THEN NaN ELSE R(0)]
    IN  IF series_type = 2 \/ series_type = 3
        THEN update_network_elements_with_int_series(engine, series_name, df.index, series)
        ELSE IF series_type = 1
        THEN update_network_elements_with_double_series(engine, series_name, df.index, series)
        ELSE IF series_type = 0
        THEN update_network_elements_with_string_series(engine, series_name, df.index, series)
        ELSE Engine(Raise(engine.table,
                          UnsupportedSeriesType(series_type, element_type, series_name)),
                    engine.calls)

(* the loop body with `series_type == 3` alone in the first test, ints      *)
(* going to the double primitive                                            *)
dispatch_int_as_double(engine, element_type, df, series_name) ==
    LET series == Series(df, series_name)
        series_type == get_series_type(element_type, series_name)
    IN  IF series_type = 3
        THEN update_network_elements_with_int_series(engine, series_name, df.index, series)
        ELSE IF series_type = 1 \/ series_type = 2
        THEN update_network_elements_with_double_series(engine, series_name, df.index, series)
        ELSE IF series_type = 0
        THEN update_network_elements_with_string_series(engine, series_name, df.index, series)
        ELSE Engine(Raise(engine.table,
                          UnsupportedSeriesType(series_type, element_type, series_name)),
                    engine.calls)

(* one iteration of the loop of update_elements, for column series_name *)
dispatch(engine, element_type, df, series_name) ==
    LET series == Series(df, series_name)
        series_type == get_series_type(element_type, series_name)
    IN  IF series_type = 2 \/ series_type = 3
        THEN update_network_elements_with_int_series(engine, series_name, df.index, series)
        ELSE IF series_type = 1
        THEN update_network_elements_with_double_series(engine, series_name, df.index, series)
        ELSE IF series_type = 0
        THEN update_network_elements_with_string_series(engine, series_name, df.index, series)
        ELSE Engine(Raise(engine.table,
                          UnsupportedSeriesType(series_type, element_type, series_name)),
                    engine.calls)

RECURSIVE update_columns(_, _, _, _)
(* the loop of update_elements from column k on; `engine` is the engine     *)
(* after the columns before k were dispatched; an exception ends the loop   *)
update_columns(engine, element_type, df, k) ==
    The({IF k > Len(f.columns) \/ ~Ok(e.table) THEN e
         ELSE update_columns(dispatch(e, element_type, f, f.columns[k]),
                             element_type, f, k + 1)
         : e \in {engine}, f \in {df}})

(* update_elements that looks at the types of all columns before it         *)
(* dispatches the first one                                                 *)
update_elements_all_or_nothing(element_type, df) ==
    LET engine == Engine(get_elements(element_type), <<>>)
        unsupported == {k \in 1..Len(df.columns) :
                          get_series_type(element_type, df.columns[k]) \notin 0..3}
    IN  IF unsupported = {}
        THEN update_columns(engine, element_type, df, 1)
        ELSE LET k == CHOOSE k \in unsupported : \A j \in unsupported : k <= j
             IN  Engine(Raise(engine.table,
                              UnsupportedSeriesType(
                                  get_series_type(element_type, df.columns[k]),
                                  element_type, df.columns[k])),
                        engine.calls)

(* Network.update_elements: the engine after the call; the err of its table *)
(* is the exception the call ends with                                      *)
update_elements(element_type, df) ==
    update_columns(Engine(get_elements(element_type), <<>>), element_type, df, 1)

----------------------------------------------------------------------------
(* Per-unit write path: what Network.update_<category>(df) hands to         *)
(* update_elements                                                          *)

(* update_buses without the multiplication by nominal_v *)
update_buses_unscaled(df) == df

update_buses(df) ==
    IF per_unit
    THEN Run(df, <<<<"merge_index", "BUS", "voltage_level_id">>,
                   <<"merge", "voltage_level_id", "VOLTAGE_LEVEL", "nominal_v">>,
                   <<"*=", "v_mag", "VoltageBase", "nominal_v">>,
                   <<"drop", {"nominal_v", "voltage_level_id"}>>>>)
    ELSE df

update_switches(df) == df

update_generators(df) ==
    IF per_unit
    THEN Run(df, <<<<"merge_index", "GENERATOR", "voltage_level_id">>,
                   <<"merge", "voltage_level_id", "VOLTAGE_LEVEL", "nominal_v">>,
                   <<"*=", "target_v", "VoltageBase", "nominal_v">>,
                   <<"*=", "target_p", "PowerBase", "">>,
                   <<"*=", "target_q", "PowerBase", "">>,
                   <<"drop", {"nominal_v", "voltage_level_id"}>>>>)
    ELSE df

(* an update_loads that multiplies whatever the flag says *)
update_loads_whatever_the_flag(df) ==
    Run(df, Each("*=", <<"p0", "q0">>, "PowerBase", ""))

update_loads(df) ==
    IF per_unit THEN Run(df, Each("*=", <<"p0", "q0">>, "PowerBase", "")) ELSE df

update_batteries(df) ==
    IF per_unit THEN Run(df, Each("*=", <<"p0", "q0">>, "PowerBase", "")) ELSE df

update_dangling_lines(df) ==
    IF per_unit THEN Run(df, Each("*=", <<"p0", "q0">>, "PowerBase", "")) ELSE df

update_vsc_converter_stations(df) ==
    IF per_unit
    THEN Run(df, <<<<"*=", "reactive_power_setpoint", "PowerBase", "">>,
                   <<"merge_index", "VSC_CONVERTER_STATION", "voltage_level_id">>,
                   <<"merge", "voltage_level_id", "VOLTAGE_LEVEL", "nominal_v">>,
                   <<"*=", "voltage_setpoint", "VoltageBase", "nominal_v">>,
                   <<"drop", {"nominal_v", "voltage_level_id"}>>>>)
    ELSE df

update_static_var_compensators(df) ==
    IF per_unit
    THEN Run(df, <<<<"*=", "reactive_power_setpoint", "PowerBase", "">>,
                   <<"merge_index", "STATIC_VAR_COMPENSATOR", "voltage_level_id">>,
                   <<"merge", "voltage_level_id", "VOLTAGE_LEVEL", "nominal_v">>,
                   <<"*=", "voltage_setpoint", "VoltageBase", "nominal_v">>,
                   <<"drop", {"nominal_v", "voltage_level_id"}>>>>)
    ELSE df

update_hvdc_lines(df) ==
    IF per_unit THEN Run(df, <<<<"*=", "active_power_setpoint", "PowerBase", "">>>>) ELSE df

update_2_windings_transformers(df) == df

update_ratio_tap_changers(df) == df

update_phase_tap_changers(df) == df

(* the element types that have an update_<category> *)
UpdateType ==
    {"BUS", "SWITCH", "GENERATOR", "LOAD", "BATTERY", "DANGLING_LINE",
     "VSC_CONVERTER_STATION", "STATIC_VAR_COMPENSATOR", "HVDC_LINE",
     "TWO_WINDINGS_TRANSFORMER", "RATIO_TAP_CHANGER", "PHASE_TAP_CHANGER"}

(* update_<category>(df) up to its call of update_elements, by element type *)
ToEngineUnits(t, df) ==
    CASE t = "BUS" -> update_buses(df)
      [] t = "SWITCH" -> update_switches(df)
      [] t = "GENERATOR" -> update_generators(df)
      [] t = "LOAD" -> update_loads(df)
      [] t = "BATTERY" -> update_batteries(df)
      [] t = "DANGLING_LINE" -> update_dangling_lines(df)
      [] t = "VSC_CONVERTER_STATION" -> update_vsc_converter_stations(df)
      [] t = "STATIC_VAR_COMPENSATOR" -> update_static_var_compensators(df)
      [] t = "HVDC_LINE" -> update_hvdc_lines(df)
      [] t = "TWO_WINDINGS_TRANSFORMER" -> update_2_windings_transformers(df)
      [] t = "RATIO_TAP_CHANGER" -> update_ratio_tap_changers(df)
      [] t = "PHASE_TAP_CHANGER" -> update_phase_tap_changers(df)

(* the caller's table object after update_<category>(df) without the copy   *)
(* that a statement on a column of df modifies                              *)
CallerTable_copied(t, df) == df

(* the caller's table object after update_<category>(df): `df[c] *= ...`    *)
(* assigns to the object the caller passed, until `df = pd.merge(...)`      *)
(* binds df to a new object; a statement that raises leaves the object as   *)
(* the statements before it made it                                         *)
CallerTable(t, df) ==
    IF ~per_unit THEN df
    ELSE Raise(Run(df, CASE t \in {"LOAD", "BATTERY", "DANGLING_LINE"} ->
                               Each("*=", <<"p0", "q0">>, "PowerBase", "")
                         [] t \in {"VSC_CONVERTER_STATION", "STATIC_VAR_COMPENSATOR"} ->
                               <<<<"*=", "reactive_power_setpoint", "PowerBase", "">>>>
                         [] t = "HVDC_LINE" ->
                               <<<<"*=", "active_power_setpoint", "PowerBase", "">>>>
                         [] OTHER -> <<>>),
               "none")

----------------------------------------------------------------------------
(* The calls a client makes, and the tables it passes                       *)

(* at most this many update_<category> calls in a run *)
MaxUpdates == 1

(* the values set_nominal_s is called with *)
PowerBases == {0, 1, 100}

(* the values a caller writes *)
CallerValues == {Q(1, 20)}

(* the columns a caller writes, per element type, in table order *)
Updatable(t) ==
    CASE t = "BUS" -> <<"v_mag", "v_angle">>
      [] t = "SWITCH" -> <<"open", "kind", "retained">>
      [] t = "GENERATOR" -> <<"target_p", "target_q", "target_v", "voltage_regulator_on">>
      [] t = "LOAD" -> <<"p0", "q0">>
      [] t = "BATTERY" -> <<"p0", "q0">>
      [] t = "DANGLING_LINE" -> <<"p0", "q0">>
      [] t = "VSC_CONVERTER_STATION" ->
            <<"voltage_setpoint", "reactive_power_setpoint", "voltage_regulator_on">>
      [] t = "STATIC_VAR_COMPENSATOR" -> <<"voltage_setpoint", "reactive_power_setpoint">>
      [] t = "HVDC_LINE" -> <<"converters_mode", "active_power_setpoint">>
      [] t = "TWO_WINDINGS_TRANSFORMER" -> <<"r", "g", "rated_u1", "rated_s">>
      [] t = "RATIO_TAP_CHANGER" -> <<"tap">>
      [] t = "PHASE_TAP_CHANGER" -> <<"tap">>

ColumnChoices(t) == (SUBSET Range(Updatable(t))) \ {{}}

(* row identifiers a caller may use that no element of the network has *)
UnknownRows == <<"NOPE">>

(* the first k rows of the engine's table, k >= 1 *)
RowChoices(t) ==
    LET index == get_elements(t).index
    IN  {{index[j] : j \in 1..k} : k \in 1..Len(index)}

Position(seq, e) == CHOOSE k \in 1..Len(seq) : seq[k] = e

(* the names a caller writes to the columns that hold names *)
CallerNames == [converters_mode |-> "SIDE_1_INVERTER_SIDE_2_RECTIFIER",
                kind |-> "DISCONNECTOR"]

(* a table a caller builds: rows and columns in the engine's order, the     *)
(* cells filled with distinct multiples of v (boolean cells with FALSE,     *)
(* cells that hold a name with the caller's name for the column, cells of   *)
(* an int column with a whole number)                                       *)
NewFrame(t, rows, cols, v) ==
    LET index == SelectSeq(get_elements(t).index, LAMBDA i : i \in rows)
                 \o SelectSeq(UnknownRows, LAMBDA i : i \in rows)
        columns == SelectSeq(Updatable(t), LAMBDA c : c \in cols)
    IN  Frame(index, columns,
              [i \in rows |->
                 [c \in cols |->
                    IF c \in BooleanColumns THEN FALSE
                    ELSE IF c \in DOMAIN CallerNames THEN CallerNames[c]
                    ELSE IF c \in IntColumns THEN R(Position(index, i) + 1)
                    ELSE Mul(v, R(Position(index, i)
                                  + Len(index) * (Position(columns, c) - 1)))]])

(* values that are not of the declared type of their column: half a tap,   *)
(* a text for an angle                                                      *)
MistypedValues == [tap |-> Q(1, 2), v_angle |-> <<"str", "abc">>]

(* a table of all the updatable columns for the first row, with the values  *)
(* above in the columns that have one                                       *)
MistypedFrames(t) ==
    IF Range(Updatable(t)) \cap DOMAIN MistypedValues = {} THEN {}
    ELSE {[f EXCEPT !.data =
             [i \in DOMAIN f.data |->
                [c \in DOMAIN f.data[i] |->
                    IF c \in DOMAIN MistypedValues THEN MistypedValues[c]
                    ELSE f.data[i][c]]]]
          : f \in {NewFrame(t, {get_elements(t).index[1]}, Range(Updatable(t)), v)
                     : v \in CallerValues}}

(* the tables update_<category> is called with: new ones, one of all the    *)
(* updatable columns with a row for an unknown identifier after the first   *)
(* row, one with values of another type than the column's, and - after a    *)
(* get_<category> of the same type - the returned table cut down to         *)
(* updatable columns                                                        *)
CallerFrames(t) ==
    {NewFrame(t, rows, cols, v) :
        rows \in RowChoices(t), cols \in ColumnChoices(t), v \in CallerValues}
    \cup
    {NewFrame(t, {get_elements(t).index[1]} \cup Range(UnknownRows),
              Range(Updatable(t)), v) : v \in CallerValues}
    \cup
    MistypedFrames(t)
    \cup
    (IF last.op = "get" /\ last.cat = t
     THEN {Select(last.ret, cols) : cols \in ColumnChoices(t)}
     ELSE {})

NoFrame == Frame(<<>>, <<>>, <<>>)

(* the attributes Network(handle) has after __init__ *)
NewNetwork(handle) ==
    [_handle |-> handle, nominal_s |-> 1, per_unit |-> FALSE, sqrt3 |-> sqrt3]

(* the engine network of the second Network object: the variants and the    *)
(* working variant of a network just loaded                                 *)
PeerHandle == [variants |-> (INITIAL_VARIANT :> InitialNetwork), working |-> INITIAL_VARIANT]

Call(op, cat, df, ret, err) ==
    [op |-> op, cat |-> cat, df |-> df, ret |-> ret, err |-> err, calls |-> <<>>,
     args |-> <<>>, value |-> "", held |-> df]

Init ==
    /\ per_unit = FALSE
    /\ nominal_s = 1
    /\ variants = (INITIAL_VARIANT :> InitialNetwork)
    /\ working = INITIAL_VARIANT
    /\ last = Call("__init__", "", NoFrame, NoFrame, "none")
    /\ focus \in ElementType
    /\ updates = 0
    /\ peer = NewNetwork(PeerHandle)

(* an activate_per_unit that also puts the power base back to its default *)
activate_per_unit_with_default_base ==
    /\ per_unit' = TRUE
    /\ nominal_s' = 1
    /\ last' = Call("activate_per_unit", "", NoFrame, NoFrame, "none")
    /\ UNCHANGED <<variants, working, focus, updates, peer>>

activate_per_unit ==
    /\ per_unit' = TRUE
    /\ last' = Call("activate_per_unit", "", NoFrame, NoFrame, "none")
    /\ UNCHANGED <<nominal_s, variants, working, focus, updates, peer>>

(* a desactivate_per_unit that leaves the flag as it is *)
desactivate_per_unit_keeps_flag ==
    /\ per_unit' = per_unit
    /\ last' = Call("desactivate_per_unit", "", NoFrame, NoFrame, "none")
    /\ UNCHANGED <<nominal_s, variants, working, focus, updates, peer>>

desactivate_per_unit ==
    /\ per_unit' = FALSE
    /\ last' = Call("desactivate_per_unit", "", NoFrame, NoFrame, "none")
    /\ UNCHANGED <<nominal_s, variants, working, focus, updates, peer>>

set_nominal_s(value) ==
    /\ nominal_s' = value
    /\ last' = Call("set_nominal_s", "", NoFrame, NoFrame, "none")
    /\ UNCHANGED <<per_unit, variants, working, focus, updates, peer>>

(* get_<category>() *)
Get(t) ==
    /\ t = focus
    /\ last' = Call("get", t, NoFrame, GetTable(t), "none")
    /\ UNCHANGED <<per_unit, nominal_s, variants, working, focus, updates, peer>>

(* an update_<category> whose write reaches the table of every variant *)
Update_every_variant(t, df) ==
    /\ t = focus
    /\ updates < MaxUpdates
    /\ updates' = updates + 1
    /\ \E converted \in {ToEngineUnits(t, df)} :
          \E written \in {IF Ok(converted) THEN update_elements(t, converted)
                          ELSE Engine(Raise(get_elements(t), converted.err), <<>>)} :
             /\ variants' = [v \in DOMAIN variants |->
                                [variants[v] EXCEPT ![t] = Raise(written.table, "none")]]
             /\ last' = [Call("update", t, df, NoFrame, written.table.err)
                            EXCEPT !.calls = written.calls]
    /\ UNCHANGED <<per_unit, nominal_s, working, focus, peer>>

(* an update_<category> that hands the caller's table to update_elements    *)
(* when the conversion raises, and then reports the conversion's exception  *)
Update_dispatching_unconverted(t, df) ==
    /\ t = focus
    /\ updates < MaxUpdates
    /\ updates' = updates + 1
    /\ \E converted \in {ToEngineUnits(t, df)} :
          \E written \in {update_elements(t, IF Ok(converted) THEN converted ELSE df)} :
             /\ variants' = [variants EXCEPT ![working][t] = Raise(written.table, "none")]
             /\ last' = [Call("update", t, df, NoFrame,
                              IF Ok(converted) THEN written.table.err ELSE converted.err)
                            EXCEPT !.calls = written.calls, !.held = CallerTable(t, df)]
    /\ UNCHANGED <<per_unit, nominal_s, working, focus, peer>>

(* update_<category>(df): the conversion, then update_elements; an          *)
(* exception in the conversion leaves the engine alone                      *)
Update(t, df) ==
    /\ t = focus
    /\ updates < MaxUpdates
    /\ updates' = updates + 1
    /\ \E converted \in {ToEngineUnits(t, df)} :
          \E written \in {IF Ok(converted) THEN update_elements(t, converted)
                          ELSE Engine(Raise(get_elements(t), converted.err), <<>>)} :
             /\ variants' = [variants EXCEPT ![working][t] = Raise(written.table, "none")]
             /\ last' = [Call("update", t, df, NoFrame, written.table.err)
                            EXCEPT !.calls = written.calls, !.held = CallerTable(t, df)]
    /\ UNCHANGED <<per_unit, nominal_s, working, focus, peer>>

Next ==
    \/ activate_per_unit
    \/ desactivate_per_unit
    \/ \E value \in PowerBases : set_nominal_s(value)
    \/ \E t \in ElementType : Get(t)
    \/ \E t \in UpdateType : \E df \in CallerFrames(t) : Update(t, df)

Spec == Init /\ [][Next]_vars

(* The same calls on an engine network in which bus B2 and generator GEN2   *)
(* name a voltage level that the voltage-level table does not hold.         *)
OrphanNetwork ==
    [InitialNetwork EXCEPT !.BUS.data.B2.voltage_level_id = "VL9",
                           !.GENERATOR.data.GEN2.voltage_level_id = "VL9"]

OrphanFocus == {"BUS", "GENERATOR"}

OrphanInit ==
    /\ per_unit = FALSE
    /\ nominal_s = 1
    /\ variants = (INITIAL_VARIANT :> OrphanNetwork)
    /\ working = INITIAL_VARIANT
    /\ last = Call("__init__", "", NoFrame, NoFrame, "none")
    /\ focus \in OrphanFocus
    /\ updates = 0
    /\ peer = NewNetwork(PeerHandle)

OrphanSpec == OrphanInit /\ [][Next]_vars

----------------------------------------------------------------------------
(* The caller keeps the table object it passed and passes it again          *)

(* update_<category>(df) with the object of the call before *)
UpdateAgain(t) ==
    /\ t = focus
    /\ last.op = "update" /\ last.cat = t
    /\ updates <= MaxUpdates
    /\ updates' = updates + 1
    /\ \E df \in {last.held} : \E converted \in {ToEngineUnits(t, df)} :
          \E written \in {IF Ok(converted) THEN update_elements(t, converted)
                          ELSE Engine(Raise(get_elements(t), converted.err), <<>>)} :
             /\ variants' = [variants EXCEPT ![working][t] = Raise(written.table, "none")]
             /\ last' = [Call("update", t, df, NoFrame, written.table.err)
                            EXCEPT !.calls = written.calls, !.held = CallerTable(t, df)]
    /\ UNCHANGED <<per_unit, nominal_s, working, focus, peer>>

(* the element types whose update_<category> converts under per-unit *)
AliasFocus ==
    {"BUS", "GENERATOR", "LOAD", "BATTERY", "DANGLING_LINE", "HVDC_LINE",
     "VSC_CONVERTER_STATION", "STATIC_VAR_COMPENSATOR"}

AliasInit ==
    /\ per_unit = FALSE
    /\ nominal_s = 1
    /\ variants = (INITIAL_VARIANT :> InitialNetwork)
    /\ working = INITIAL_VARIANT
    /\ last = Call("__init__", "", NoFrame, NoFrame, "none")
    /\ focus \in AliasFocus
    /\ updates = 0
    /\ peer = NewNetwork(PeerHandle)

AliasNext ==
    \/ activate_per_unit
    \/ desactivate_per_unit
    \/ \E value \in PowerBases : set_nominal_s(value)
    \/ \E t \in AliasFocus : \E df \in CallerFrames(t) : Update(t, df)
    \/ \E t \in AliasFocus : UpdateAgain(t)

AliasSpec == AliasInit /\ [][AliasNext]_vars

----------------------------------------------------------------------------
(* Variants.  Network.clone_variant, set_working_variant, remove_variant,   *)
(* get_working_variant_id and get_variant_ids hand their arguments to the   *)
(* engine and return what it returns; an engine error is the exception the  *)
(* caller gets.                                                             *)

(* the engine behind self._handle: variant id -> tables, the working        *)
(* variant id, the error of the last engine call                            *)
Handle(vs, w) == [variants |-> vs, working |-> w, err |-> "none"]

Failed(handle, err) == [handle EXCEPT !.err = err]

(* _pypowsybl.clone_variant *)
pypowsybl_clone_variant(handle, src, variant, may_overwrite) ==
    IF src \notin DOMAIN handle.variants
    THEN Failed(handle, "UnknownVariantError")
    ELSE IF variant \in DOMAIN handle.variants /\ ~may_overwrite
    THEN Failed(handle, "VariantAlreadyExistsError")
    ELSE [handle EXCEPT !.variants =
            [v \in DOMAIN handle.variants \cup {variant} |->
                IF v = variant THEN handle.variants[src] ELSE handle.variants[v]]]

(* _pypowsybl.set_working_variant *)
pypowsybl_set_working_variant(handle, variant) ==
    IF variant \notin DOMAIN handle.variants
    THEN Failed(handle, "UnknownVariantError")
    ELSE [handle EXCEPT !.working = variant]

(* _pypowsybl.remove_variant *)
pypowsybl_remove_variant(handle, variant) ==
    IF variant \notin DOMAIN handle.variants
    THEN Failed(handle, "UnknownVariantError")
    ELSE IF variant = handle.working
    THEN Failed(handle, "CannotRemoveWorkingVariantError")
    ELSE [handle EXCEPT !.variants =
            [v \in DOMAIN handle.variants \ {variant} |-> handle.variants[v]]]

(* _pypowsybl.get_working_variant_id *)
pypowsybl_get_working_variant_id(handle) == handle.working

(* _pypowsybl.get_variant_ids *)
pypowsybl_get_variant_ids(handle) == DOMAIN handle.variants

(* the variant ids a caller uses *)
VariantIds == {INITIAL_VARIANT, "v2", "v3"}

(* the record of a variant call: its arguments, what it returned *)
VariantCall(op, args, value, err) ==
    [Call(op, "", NoFrame, NoFrame, err) EXCEPT !.args = args, !.value = value]

(* the engine's state after a call becomes the state behind self._handle *)
Returns(handle, call) ==
    /\ variants' = handle.variants
    /\ working' = handle.working
    /\ last' = call
    /\ UNCHANGED <<per_unit, nominal_s, focus, updates, peer>>

get_working_variant_id ==
    Returns(Handle(variants, working),
            VariantCall("get_working_variant_id", <<>>,
                        pypowsybl_get_working_variant_id(Handle(variants, working)), "none"))

(* a clone_variant that does not hand may_overwrite to the engine, which    *)
(* then overwrites                                                          *)
clone_variant_overwriting(src, target, may_overwrite) ==
    \E handle \in {pypowsybl_clone_variant(Handle(variants, working),
                                            src, target, TRUE)} :
        Returns(handle, VariantCall("clone_variant",
                                    [src |-> src, target |-> target,
                                     may_overwrite |-> may_overwrite],
                                    "", handle.err))

clone_variant(src, target, may_overwrite) ==
    \E handle \in {pypowsybl_clone_variant(Handle(variants, working),
                                            src, target, may_overwrite)} :
        Returns(handle, VariantCall("clone_variant",
                                    [src |-> src, target |-> target,
                                     may_overwrite |-> may_overwrite],
                                    "", handle.err))

(* a set_working_variant that returns without calling the engine *)
set_working_variant_not_called(variant) ==
    Returns(Handle(variants, working),
            VariantCall("set_working_variant", [variant |-> variant], "", "none"))

set_working_variant(variant) ==
    \E handle \in {pypowsybl_set_working_variant(Handle(variants, working), variant)} :
        Returns(handle, VariantCall("set_working_variant", [variant |-> variant],
                                    "", handle.err))

(* a remove_variant that swallows the engine's error *)
remove_variant_quietly(variant) ==
    \E handle \in {pypowsybl_remove_variant(Handle(variants, working), variant)} :
        Returns(handle, VariantCall("remove_variant", [variant |-> variant], "", "none"))

(* a remove_variant that removes any variant the engine has, the working    *)
(* one included                                                             *)
remove_variant_of_any(variant) ==
    \E handle \in {IF variant \in DOMAIN variants
                   THEN Handle([v \in DOMAIN variants \ {variant} |-> variants[v]], working)
                   ELSE Failed(Handle(variants, working), "UnknownVariantError")} :
        Returns(handle, VariantCall("remove_variant", [variant |-> variant],
                                    "", handle.err))

remove_variant(variant) ==
    \E handle \in {pypowsybl_remove_variant(Handle(variants, working), variant)} :
        Returns(handle, VariantCall("remove_variant", [variant |-> variant],
                                    "", handle.err))

get_variant_ids ==
    Returns(Handle(variants, working),
            VariantCall("get_variant_ids", <<>>,
                        pypowsybl_get_variant_ids(Handle(variants, working)), "none"))

(* the element types the client of a network with several variants reads    *)
(* and writes                                                               *)
VariantFocus == {"LOAD", "SWITCH"}

VariantInit ==
    /\ per_unit = FALSE
    /\ nominal_s = 1
    /\ variants = (INITIAL_VARIANT :> InitialNetwork)
    /\ working = INITIAL_VARIANT
    /\ last = Call("__init__", "", NoFrame, NoFrame, "none")
    /\ focus \in VariantFocus
    /\ updates = 0
    /\ peer = NewNetwork(PeerHandle)

VariantNext ==
    \/ get_working_variant_id
    \/ \E src \in VariantIds, target \in VariantIds, may_overwrite \in BOOLEAN :
          clone_variant(src, target, may_overwrite)
    \/ \E variant \in VariantIds : set_working_variant(variant)
    \/ \E variant \in VariantIds : remove_variant(variant)
    \/ get_variant_ids
    \/ \E t \in ElementType : Get(t)
    \/ \E t \in UpdateType : \E df \in CallerFrames(t) : Update(t, df)

VariantSpec == VariantInit /\ [][VariantNext]_vars

----------------------------------------------------------------------------
(* Voltage bases that change.  update_elements is called directly for the   *)
(* voltage levels, between reads of buses and voltage levels, with per-unit *)
(* on or off and on several variants.                                       *)

(* the tables update_elements(VOLTAGE_LEVEL, df) is called with: a new      *)
(* nominal voltage for the first voltage level                              *)
VoltageLevelFrames ==
    {Frame(<<"VL1">>, <<"nominal_v">>, [VL1 |-> [nominal_v |-> R(v)]]) : v \in {200}}

(* update_elements(element_type, df) called by the client *)
UpdateElements(element_type, df) ==
    /\ updates < MaxUpdates
    /\ updates' = updates + 1
    /\ \E written \in {update_elements(element_type, df)} :
          /\ variants' = [variants EXCEPT
                             ![working][element_type] = Raise(written.table, "none")]
          /\ last' = [Call("update_elements", element_type, df, NoFrame, written.table.err)
                         EXCEPT !.calls = written.calls]
    /\ UNCHANGED <<per_unit, nominal_s, working, focus, peer>>

BaseFocus == {"BUS", "VOLTAGE_LEVEL"}

BaseInit ==
    /\ per_unit = FALSE
    /\ nominal_s = 1
    /\ variants = (INITIAL_VARIANT :> InitialNetwork)
    /\ working = INITIAL_VARIANT
    /\ last = Call("__init__", "", NoFrame, NoFrame, "none")
    /\ focus \in BaseFocus
    /\ updates = 0
    /\ peer = NewNetwork(PeerHandle)

BaseNext ==
    \/ activate_per_unit
    \/ desactivate_per_unit
    \/ \E t \in ElementType : Get(t)
    \/ \E df \in VoltageLevelFrames : UpdateElements("VOLTAGE_LEVEL", df)
    \/ \E target \in VariantIds : clone_variant(working, target, TRUE)
    \/ \E variant \in VariantIds : set_working_variant(variant)

BaseSpec == BaseInit /\ [][BaseNext]_vars

----------------------------------------------------------------------------
(* Two Network objects.  The client holds a second Network object, made by  *)
(* Network(handle) and, in PickleSpec, restored by pickle from the first    *)
(* one, and calls the methods of both.                                      *)

(* obj.name = value *)
SetAttr(obj, name, value) ==
    [a \in DOMAIN obj \cup {name} |-> IF a = name THEN value ELSE obj[a]]

(* the state pickle stores: the network of the working variant as           *)
(* dump_to_string writes it                                                 *)
__getstate__ == [xml |-> variants[working]]

(* a __setstate__ that runs the attribute assignments of __init__ as well *)
__setstate___as_init(state) ==
    NewNetwork([variants |-> (INITIAL_VARIANT :> state.xml), working |-> INITIAL_VARIANT])

(* the attributes of the object pickle makes (without __init__) after       *)
(* __setstate__(state): the handle of the network loaded from the string    *)
__setstate__(state) ==
    [_handle |-> [variants |-> (INITIAL_VARIANT :> state.xml),
                  working |-> INITIAL_VARIANT]]

(* peer = pickle.loads(pickle.dumps(self)) *)
Restore ==
    /\ peer' = __setstate__(__getstate__)
    /\ last' = Call("__setstate__", "", NoFrame, NoFrame, "none")
    /\ UNCHANGED <<per_unit, nominal_s, variants, working, focus, updates>>

(* the same calls on attributes that all Network objects share *)
PeerControl_shared(op, value) ==
    /\ peer' = CASE op = "activate_per_unit" -> SetAttr(peer, "per_unit", TRUE)
                 [] op = "desactivate_per_unit" -> SetAttr(peer, "per_unit", FALSE)
                 [] op = "set_nominal_s" -> SetAttr(peer, "nominal_s", value)
    /\ per_unit' = IF op = "set_nominal_s" THEN per_unit ELSE op = "activate_per_unit"
    /\ nominal_s' = IF op = "set_nominal_s" THEN value ELSE nominal_s
    /\ last' = Call("peer." \o op, "", NoFrame, NoFrame, "none")
    /\ UNCHANGED <<variants, working, focus, updates>>

(* peer.activate_per_unit(), peer.desactivate_per_unit(),                   *)
(* peer.set_nominal_s(value)                                                *)
PeerControl(op, value) ==
    /\ peer' = CASE op = "activate_per_unit" -> SetAttr(peer, "per_unit", TRUE)
                 [] op = "desactivate_per_unit" -> SetAttr(peer, "per_unit", FALSE)
                 [] op = "set_nominal_s" -> SetAttr(peer, "nominal_s", value)
    /\ last' = Call("peer." \o op, "", NoFrame, NoFrame, "none")
    /\ UNCHANGED <<per_unit, nominal_s, variants, working, focus, updates>>

(* the element types whose get_<category> reads self.per_unit *)
ContextReads ==
    {"BUS", "GENERATOR", "LOAD", "LINE", "TWO_WINDINGS_TRANSFORMER",
     "THREE_WINDINGS_TRANSFORMER", "SHUNT_COMPENSATOR", "DANGLING_LINE",
     "LCC_CONVERTER_STATION", "VSC_CONVERTER_STATION", "STATIC_VAR_COMPENSATOR",
     "VOLTAGE_LEVEL", "BUSBAR_SECTION", "HVDC_LINE",
     "REACTIVE_CAPABILITY_CURVE_POINT"}

(* peer.get_<category>(), called while the peer's flag is not True: the     *)
(* read of an attribute that is not set raises AttributeError               *)
PeerGet(t) ==
    /\ t = focus
    /\ "per_unit" \in DOMAIN peer => ~peer.per_unit
    /\ last' = IF t \in ContextReads /\ "per_unit" \notin DOMAIN peer
               THEN Call("peer.get", t, NoFrame, NoFrame, "AttributeError")
               ELSE Call("peer.get", t, NoFrame,
                         peer._handle.variants[peer._handle.working][t], "none")
    /\ UNCHANGED <<per_unit, nominal_s, variants, working, focus, updates, peer>>

(* the element types the client of the two objects reads and writes *)
ContextFocus == {"GENERATOR", "VSC_CONVERTER_STATION", "SWITCH"}

(* the tables it passes to update_<category>: the first row with all the    *)
(* updatable columns, and with all but the first of them                    *)
ContextFrames(t) ==
    {NewFrame(t, {get_elements(t).index[1]}, cols, v) :
        cols \in {Range(Updatable(t)), Range(Tail(Updatable(t)))}, v \in CallerValues}

ContextInit ==
    /\ per_unit = FALSE
    /\ nominal_s = 1
    /\ variants = (INITIAL_VARIANT :> InitialNetwork)
    /\ working = INITIAL_VARIANT
    /\ last = Call("__init__", "", NoFrame, NoFrame, "none")
    /\ focus \in ContextFocus
    /\ updates = 0
    /\ peer = NewNetwork(PeerHandle)

ContextNext ==
    \/ activate_per_unit
    \/ desactivate_per_unit
    \/ \E value \in {100} : set_nominal_s(value)
    \/ \E t \in ContextFocus : Get(t)
    \/ \E t \in ContextFocus : \E df \in ContextFrames(t) : Update(t, df)
    \/ \E target \in {"v2"} : clone_variant(working, target, TRUE)
    \/ \E variant \in {INITIAL_VARIANT, "v2"} : set_working_variant(variant)
    \/ \E variant \in {INITIAL_VARIANT, "v2"} : remove_variant(variant)
    \/ \E op \in {"activate_per_unit", "desactivate_per_unit", "set_nominal_s"} :
          \E value \in {100} : PeerControl(op, value)

ContextSpec == ContextInit /\ [][ContextNext]_vars

(* the calls on the two objects when the second is restored by pickle *)
PickleNext ==
    \/ activate_per_unit
    \/ desactivate_per_unit
    \/ \E value \in {100} : set_nominal_s(value)
    \/ \E t \in ContextFocus : Get(t)
    \/ \E t \in ContextFocus : \E df \in ContextFrames(t) : Update(t, df)
    \/ \E op \in {"activate_per_unit", "desactivate_per_unit", "set_nominal_s"} :
          \E value \in {100} : PeerControl(op, value)
    \/ \E t \in ContextFocus : PeerGet(t)
    \/ Restore

PickleSpec == ContextInit /\ [][PickleNext]_vars

----------------------------------------------------------------------------
(* Vocabulary of the properties                                             *)

(* the engine's SI value of a cell of the working variant *)
Raw(t, i, c) == get_elements(t).data[i][c]

(* the nominal voltage of the voltage level that column vl of row i names *)
NominalOf(t, i, vl) == get_elements("VOLTAGE_LEVEL").data[Raw(t, i, vl)]["nominal_v"]

Rows(t) == Range(get_elements(t).index)

Returned(t) == last.op = "get" /\ last.cat = t

Updated(t) == last.op = "update" /\ last.cat = t /\ last.err = "none"

Controls == {"activate_per_unit", "desactivate_per_unit", "set_nominal_s"}

(* the documented bases, for a voltage base v in kV *)
BaseCurrent(v) == Div(Mul(R(nominal_s), R(1000)), Mul(sqrt3, v))

BaseImpedance(v) == Div(Sq(v), Mul(R(nominal_s), R(1000)))

BaseAdmittance(v) == Div(Mul(R(nominal_s), R(1000)), Sq(v))

(* the value get_<t> has just returned in cell (i, c) *)
Got(i, c) == last.ret.data[i][c]

(* the value the caller passed to update_<t> in cell (i, c) *)
Given(i, c) == last.df.data[i][c]

----------------------------------------------------------------------------
(* C1: round trip.  Whether per-unit is enabled or not, and for a positive  *)
(* power base, updating a category with the table its get has just          *)
(* returned, restricted to some of its mutable columns, leaves every value  *)
(* reported by the following get of that category unchanged.  Stated here   *)
(* for batteries, the first instance the claim names.                       *)
RoundTripStep ==
    /\ last.op = "get"
    /\ last'.op = "update"
    /\ last'.cat = last.cat
    /\ last'.err = "none"
    /\ \E cols \in ColumnChoices(last.cat) : last'.df = Select(last.ret, cols)

C1_RoundTrip ==
    [][(RoundTripStep /\ last.cat = "BATTERY" /\ nominal_s > 0)
          => GetTable(last.cat)' = last.ret]_vars

----------------------------------------------------------------------------
(* C2: the power base is positive in every reachable state (a               *)
(* set_power_base with a value <= 0 is rejected and changes nothing).       *)
C2_PowerBasePositive == nominal_s > 0

----------------------------------------------------------------------------
(* C3: per-unit inverse law.  No per-unit control operation and no get      *)
(* changes what the engine stores, and the get that follows                 *)
(* desactivate_per_unit returns the engine's table as it is stored; hence   *)
(* the reads v1 and v3 of deactivate; v1 = get; activate; set_power_base;   *)
(* v2 = get; deactivate; v3 = get are equal, for every power base.          *)
C3_PerUnitInverse ==
    [][/\ (last'.op \in Controls \cup {"get"})
             => (variants' = variants /\ working' = working)
       /\ (last.op = "desactivate_per_unit" /\ last'.op = "get")
             => \A t \in ElementType :
                    last'.cat = t => last'.ret = get_elements(t)']_vars

(* a raw read of the untouched network, made after the base was set to 100 *)
C3_Witness ==
    /\ Returned("LOAD")
    /\ ~per_unit
    /\ nominal_s = 100
    /\ last.ret = InitialNetwork["LOAD"]
    /\ get_elements("LOAD") = InitialNetwork["LOAD"]

----------------------------------------------------------------------------
(* C4: power scale law.  With per-unit enabled (and a positive base) every  *)
(* power column is read as raw / power_base, and a value written to a       *)
(* writable power column is stored as value * power_base; batteries         *)
(* included.                                                                *)
PowerColumns ==
    [LOAD |-> {"p0", "q0", "p", "q"},
     BATTERY |-> {"p0", "q0"},
     GENERATOR |-> {"target_p", "target_q", "min_p", "max_p", "min_q", "max_q", "p", "q"},
     DANGLING_LINE |-> {"p0", "q0", "p", "q"},
     SHUNT_COMPENSATOR |-> {"p", "q"},
     LINE |-> {"p1", "q1", "p2", "q2"},
     LCC_CONVERTER_STATION |-> {"p", "q"},
     VSC_CONVERTER_STATION |-> {"reactive_power_setpoint", "p", "q"},
     STATIC_VAR_COMPENSATOR |-> {"reactive_power_setpoint", "p", "q"},
     HVDC_LINE |-> {"active_power_setpoint", "max_p"}]

C4_PowerScaleLaw ==
    (per_unit /\ nominal_s > 0) =>
        \A t \in DOMAIN PowerColumns :
            /\ Returned(t) =>
                 \A i \in Rows(t), c \in PowerColumns[t] :
                     Got(i, c) = Div(Raw(t, i, c), R(nominal_s))
            /\ Updated(t) =>
                 \A i \in Range(last.df.index) \cap Rows(t),
                    c \in PowerColumns[t] \cap Range(last.df.columns) :
                     Raw(t, i, c) = Mul(Given(i, c), R(nominal_s))

----------------------------------------------------------------------------
(* C5: voltage scale law.  With per-unit enabled a voltage magnitude (bus   *)
(* v_mag, generator target_v, VSC / SVC voltage_setpoint, busbar section v) *)
(* is read as raw / nominal_v of the element's own voltage level; a value   *)
(* written to such a column is stored as value * that nominal_v and is the  *)
(* value the next per-unit read reports; angle columns are read and written *)
(* as they are.                                                             *)
VoltageColumn ==
    [BUS |-> "v_mag", GENERATOR |-> "target_v", VSC_CONVERTER_STATION |-> "voltage_setpoint",
     STATIC_VAR_COMPENSATOR |-> "voltage_setpoint", BUSBAR_SECTION |-> "v"]

AngleColumns == [BUS |-> {"v_angle"}, GENERATOR |-> {}, VSC_CONVERTER_STATION |-> {},
                 STATIC_VAR_COMPENSATOR |-> {}, BUSBAR_SECTION |-> {"angle"}]

C5_VoltageScaleLaw ==
    per_unit =>
        \A t \in DOMAIN VoltageColumn :
            /\ Returned(t) =>
                 \A i \in Rows(t) :
                     /\ Got(i, VoltageColumn[t])
                          = Div(Raw(t, i, VoltageColumn[t]), NominalOf(t, i, "voltage_level_id"))
                     /\ \A c \in AngleColumns[t] : Got(i, c) = Raw(t, i, c)
            /\ Updated(t) =>
                 \A i \in Range(last.df.index) \cap Rows(t) :
                     /\ HasCol(last.df, VoltageColumn[t]) =>
                          /\ Raw(t, i, VoltageColumn[t])
                               = Mul(Given(i, VoltageColumn[t]),
                                     NominalOf(t, i, "voltage_level_id"))
                          /\ GetTable(t).data[i][VoltageColumn[t]] = Given(i, VoltageColumn[t])
                     /\ \A c \in AngleColumns[t] \cap Range(last.df.columns) :
                          Raw(t, i, c) = Given(i, c)

(* a bus magnitude of 1/20 pu and an angle written at a 400 kV level with   *)
(* base 100 : 20 kV is stored, the angle is stored as given                 *)
C5_Witness ==
    /\ per_unit
    /\ nominal_s = 100
    /\ Updated("BUS")
    /\ last.df.columns = <<"v_mag", "v_angle">>
    /\ Given("B1", "v_mag") = Q(1, 20)
    /\ Raw("BUS", "B1", "v_mag") = R(20)
    /\ Raw("BUS", "B1", "v_angle") = Given("B1", "v_angle")

----------------------------------------------------------------------------
(* C6: per-side normalization.  With per-unit enabled each side-k current   *)
(* of a line, a two-winding and a three-winding transformer, and each       *)
(* side-k admittance g_k, b_k of a line, is normalized with the nominal     *)
(* voltage of the voltage level of side k.                                  *)
SideCurrents ==
    [LINE |-> {"1", "2"}, TWO_WINDINGS_TRANSFORMER |-> {"1", "2"},
     THREE_WINDINGS_TRANSFORMER |-> {"1", "2", "3"}]

C6_PerSideNormalization ==
    (per_unit /\ nominal_s > 0) =>
        /\ \A t \in DOMAIN SideCurrents :
             Returned(t) =>
                \A i \in Rows(t), k \in SideCurrents[t] :
                    Got(i, "i" \o k)
                      = Div(Raw(t, i, "i" \o k),
                            BaseCurrent(NominalOf(t, i, "voltage_level" \o k \o "_id")))
        /\ Returned("LINE") =>
             \A i \in Rows("LINE"), k \in {"1", "2"}, y \in {"g", "b"} :
                 Got(i, y \o k)
                   = Div(Raw("LINE", i, y \o k),
                         BaseAdmittance(NominalOf("LINE", i, "voltage_level" \o k \o "_id")))

----------------------------------------------------------------------------
(* C7: admittance rule.  With per-unit enabled every conductance and        *)
(* susceptance column is read as raw / ((power_base * 1000) / V^2), the     *)
(* reciprocal of the factor of the resistance and reactance columns of the  *)
(* same element; dangling lines as lines and transformers.  (The side-2     *)
(* columns of lines are the subject of C6 and are left out here.)           *)
Admittances ==
    {<<"DANGLING_LINE", "g", "voltage_level_id">>,
     <<"DANGLING_LINE", "b", "voltage_level_id">>,
     <<"LINE", "g1", "voltage_level1_id">>,
     <<"LINE", "b1", "voltage_level1_id">>,
     <<"TWO_WINDINGS_TRANSFORMER", "g", "voltage_level2_id">>,
     <<"TWO_WINDINGS_TRANSFORMER", "b", "voltage_level2_id">>,
     <<"THREE_WINDINGS_TRANSFORMER", "g1", "voltage_level1_id">>,
     <<"THREE_WINDINGS_TRANSFORMER", "b1", "voltage_level1_id">>,
     <<"THREE_WINDINGS_TRANSFORMER", "g2", "voltage_level2_id">>,
     <<"THREE_WINDINGS_TRANSFORMER", "b2", "voltage_level2_id">>,
     <<"THREE_WINDINGS_TRANSFORMER", "g3", "voltage_level3_id">>,
     <<"THREE_WINDINGS_TRANSFORMER", "b3", "voltage_level3_id">>}

C7_AdmittanceRule ==
    (per_unit /\ nominal_s > 0) =>
        \A a \in Admittances :
            Returned(a[1]) =>
                \A i \in Rows(a[1]) :
                    Got(i, a[2]) = Div(Raw(a[1], i, a[2]),
                                       BaseAdmittance(NominalOf(a[1], i, a[3])))

----------------------------------------------------------------------------
(* C8: impedance rule for HVDC lines.  With per-unit enabled the resistance *)
(* of an HVDC line is read as raw / (V^2 / (power_base * 1000)), V being    *)
(* the nominal_v of the same row, and nominal_v is returned unscaled.       *)
C8_HvdcImpedanceRule ==
    (per_unit /\ nominal_s > 0 /\ Returned("HVDC_LINE")) =>
        \A i \in Rows("HVDC_LINE") :
            /\ Got(i, "r") = Div(Raw("HVDC_LINE", i, "r"),
                                 BaseImpedance(Raw("HVDC_LINE", i, "nominal_v")))
            /\ Got(i, "nominal_v") = Raw("HVDC_LINE", i, "nominal_v")

----------------------------------------------------------------------------
(* C9: current rule.  With per-unit enabled every current column is read as *)
(* raw / (power_base * 1000 / (sqrt(3) * V)), V being the nominal voltage   *)
(* of the voltage level of the terminal.                                    *)
Currents ==
    {<<t, "i", "voltage_level_id">> :
        t \in {"GENERATOR", "LOAD", "SHUNT_COMPENSATOR", "DANGLING_LINE",
               "LCC_CONVERTER_STATION", "VSC_CONVERTER_STATION", "STATIC_VAR_COMPENSATOR"}}
    \cup {<<t, "i" \o k, "voltage_level" \o k \o "_id">> :
            t \in {"TWO_WINDINGS_TRANSFORMER", "THREE_WINDINGS_TRANSFORMER"},
            k \in {"1", "2"}}
    \cup {<<"THREE_WINDINGS_TRANSFORMER", "i3", "voltage_level3_id">>,
          <<"LINE", "i1", "voltage_level1_id">>}

C9_CurrentRule ==
    (per_unit /\ nominal_s > 0) =>
        \A a \in Currents :
            Returned(a[1]) =>
                \A i \in Rows(a[1]) :
                    Got(i, a[2]) = Div(Raw(a[1], i, a[2]),
                                       BaseCurrent(NominalOf(a[1], i, a[3])))

----------------------------------------------------------------------------
(* C10: partial-column writes.  With per-unit enabled an update with a      *)
(* table holding any non-empty subset of the category's writable columns,   *)
(* for rows the network has, does not fail.                                 *)
C10_PartialColumnsAccepted ==
    (per_unit /\ nominal_s > 0 /\ last.op = "update") => last.err = "none"

----------------------------------------------------------------------------
(* C11: missing join target on read.  With per-unit enabled, when an        *)
(* element names a voltage level that the voltage-level table does not      *)
(* hold, get_<category> still returns a row for every element the engine    *)
(* has (the row identifiers are those returned with per-unit disabled), and *)
(* the voltage cell of such an element holds the missing-value marker.      *)
Orphans(t) ==
    {i \in Rows(t) : Raw(t, i, "voltage_level_id") \notin Rows("VOLTAGE_LEVEL")}

C11_MissingJoinTarget ==
    (per_unit /\ last.op = "get" /\ last.cat \in DOMAIN VoltageColumn) =>
        /\ Range(last.ret.index) = Rows(last.cat)
        /\ \A i \in Orphans(last.cat) : Got(i, VoltageColumn[last.cat]) = NaN


----------------------------------------------------------------------------
(* C12: unknown row identifiers on write are not masked.  For every         *)
(* update_<category>, with per-unit enabled or disabled, a table with a row *)
(* identifier that no element of the engine has (and whose columns the      *)
(* conversion finds, with types the dispatcher supports) reaches the write  *)
(* primitive with all its row identifiers, and the engine's error is what   *)
(* the caller gets: no row is dropped before dispatch.                      *)
C12_UnknownRowsNotMasked ==
    (/\ last.op = "update"
     /\ ~(Range(last.df.index) \subseteq Rows(last.cat))
     /\ last.err # "KeyError"
     /\ \A c \in Range(last.df.columns) : get_series_type(last.cat, c) \in 0..3) =>
        /\ last.err = "PyPowsyblError"
        /\ Len(last.calls) > 0
        /\ \A k \in 1..Len(last.calls) :
               Range(last.df.index) \subseteq Range(last.calls[k].index)


----------------------------------------------------------------------------
(* C13: typed dispatch.  update_elements(category, table) makes, for each   *)
(* column of the table in column order, exactly one engine write call: the  *)
(* string primitive for type code 0, the double primitive for 1, the        *)
(* integer primitive for 2 and 3; each call carries the column's own name,  *)
(* the full index of the table and that column's values, so that every cell *)
(* ends in the engine under its own row and column.  (Checked where the     *)
(* table of update_<category> is the one update_elements gets: per-unit     *)
(* disabled.  A call that fails has made a prefix of these calls; a call on *)
(* elements of the network, with supported columns and values of the        *)
(* columns' types, does not fail.)                                          *)
PrimitiveOf(series_type) ==
    CASE series_type = 0 -> "string"
      [] series_type = 1 -> "double"
      [] series_type \in {2, 3} -> "int"
      [] OTHER -> "none"

C13_TypedDispatch ==
    (last.op = "update" /\ ~per_unit) =>
        LET df == last.df
            calls == last.calls
        IN  /\ Len(calls) <= Len(df.columns)
            /\ \A k \in 1..Len(calls) :
                 /\ calls[k].series_name = df.columns[k]
                 /\ calls[k].primitive
                      = PrimitiveOf(get_series_type(last.cat, df.columns[k]))
                 /\ calls[k].index = df.index
                 /\ calls[k].values = Series(df, df.columns[k])
            /\ (/\ Range(df.index) \subseteq Rows(last.cat)
                /\ \A c \in Range(df.columns) :
                       /\ get_series_type(last.cat, c) \in 0..3
                       /\ Typed(get_series_type(last.cat, c), df.index, Series(df, c))) =>
                   /\ last.err = "none"
                   /\ Len(calls) = Len(df.columns)
                   /\ \A i \in Range(df.index), c \in Range(df.columns) :
                          Raw(last.cat, i, c) = Given(i, c)

(* a generator table of three double columns and a boolean one for two      *)
(* rows: three double calls and an int call, in column order                *)
C13_Witness ==
    /\ last.op = "update" /\ ~per_unit /\ last.err = "none"
    /\ last.cat = "GENERATOR"
    /\ last.df.index = <<"GEN", "GEN2">>
    /\ last.df.columns = <<"target_p", "target_q", "target_v", "voltage_regulator_on">>
    /\ [k \in 1..4 |-> last.calls[k].primitive] = <<"double", "double", "double", "int">>
    /\ Raw("GENERATOR", "GEN2", "voltage_regulator_on") = FALSE


----------------------------------------------------------------------------
(* C14: unsupported type rejection without rollback.  When the type code of *)
(* column c of a written table is none of 0, 1, 2, 3 (and the columns       *)
(* before c are supported and all rows are elements of the network), the    *)
(* call fails with the unsupported-series-type error that names the element *)
(* type and the column; the columns before c have been dispatched, in       *)
(* order, and their values are in the engine; c and the columns after it    *)
(* are not dispatched.                                                      *)
Unsupported(t, df) ==
    {k \in 1..Len(df.columns) : get_series_type(t, df.columns[k]) \notin 0..3}

C14_UnsupportedTypeNoRollback ==
    (/\ last.op = "update"
     /\ last.err # "KeyError"
     /\ Range(last.df.index) \subseteq Rows(last.cat)
     /\ Unsupported(last.cat, last.df) # {}) =>
        LET df == last.df
            k == CHOOSE k \in Unsupported(last.cat, df) :
                    \A j \in Unsupported(last.cat, df) : k <= j
        IN  /\ last.err = "PyPowsyblError: Unsupported series type "
                            \o ToString(get_series_type(last.cat, df.columns[k]))
                            \o ", element type: " \o last.cat
                            \o ", series_name: " \o df.columns[k]
            /\ [j \in 1..Len(last.calls) |-> last.calls[j].series_name]
                 = SubSeq(df.columns, 1, k - 1)
            /\ \A j \in 1..(k - 1), i \in Range(df.index) :
                   Raw(last.cat, i, df.columns[j]) = Given(i, df.columns[j])

(* a switch table with columns open, kind, retained: the call fails on      *)
(* kind, the switch is closed as the table says and keeps its retained flag *)
C14_Witness ==
    /\ last.op = "update" /\ last.cat = "SWITCH"
    /\ last.df.columns = <<"open", "kind", "retained">>
    /\ last.err = "PyPowsyblError: Unsupported series type 4, element type: SWITCH, series_name: kind"
    /\ Len(last.calls) = 1
    /\ Given("SW", "open") = FALSE /\ Raw("SWITCH", "SW", "open") = FALSE
    /\ Given("SW", "retained") = FALSE /\ Raw("SWITCH", "SW", "retained") = TRUE
    /\ Raw("SWITCH", "SW", "kind") = "BREAKER"


----------------------------------------------------------------------------
(* C15: working-variant invariant.  After any sequence of clone_variant,    *)
(* set_working_variant and remove_variant calls, successful or failing, the *)
(* set of variant ids is not empty and the working variant id is one of     *)
(* them; get_working_variant_id and get_variant_ids return just these.      *)
C15_WorkingVariantExists ==
    /\ pypowsybl_get_variant_ids(Handle(variants, working)) # {}
    /\ pypowsybl_get_working_variant_id(Handle(variants, working))
         \in pypowsybl_get_variant_ids(Handle(variants, working))
    /\ last.op = "get_working_variant_id" => last.value \in DOMAIN variants
    /\ last.op = "get_variant_ids" => (working \in last.value /\ last.value # {})

(* with two variants and v2 working, remove_variant("v2") has just failed   *)
C15_Witness ==
    /\ last.op = "remove_variant" /\ last.args.variant = "v2"
    /\ last.err = "CannotRemoveWorkingVariantError"
    /\ working = "v2"
    /\ DOMAIN variants = {INITIAL_VARIANT, "v2"}


----------------------------------------------------------------------------
(* C16: clone_variant(src, target, may_overwrite) fails with                *)
(* UnknownVariantError when src does not exist and with                     *)
(* VariantAlreadyExistsError when target exists and may_overwrite is false; *)
(* a failing call changes no variant and not the working variant.           *)
(* Otherwise target exists afterwards with the state of src, every other    *)
(* variant is as it was and the working variant is the same, also when      *)
(* target is the working variant.                                           *)
C16_CloneSemantics ==
    [][last'.op = "clone_variant" =>
         LET src == last'.args.src
             target == last'.args.target
         IN  IF src \notin DOMAIN variants
             THEN /\ last'.err = "UnknownVariantError"
                  /\ variants' = variants /\ working' = working
             ELSE IF target \in DOMAIN variants /\ ~last'.args.may_overwrite
             THEN /\ last'.err = "VariantAlreadyExistsError"
                  /\ variants' = variants /\ working' = working
             ELSE /\ last'.err = "none"
                  /\ DOMAIN variants' = DOMAIN variants \cup {target}
                  /\ variants'[target] = variants[src]
                  /\ \A v \in DOMAIN variants \ {target} : variants'[v] = variants[v]
                  /\ working' = working]_vars

(* after an update of the working variant v2, the initial variant has been  *)
(* cloned over it: v2 is still the working variant and has lost the update  *)
C16_Witness ==
    /\ last.op = "clone_variant" /\ last.err = "none"
    /\ last.args.src = INITIAL_VARIANT /\ last.args.target = "v2"
    /\ working = "v2"
    /\ updates = 1
    /\ variants["v2"] = InitialNetwork
    /\ "v3" \in DOMAIN variants /\ variants["v3"] # InitialNetwork


----------------------------------------------------------------------------
----------------------------------------------------------------------------
(* C18: set_working_variant(variant) fails with UnknownVariantError when    *)
(* the variant does not exist and leaves the working variant as it was;     *)
(* otherwise the working variant is that variant.  Only a successful        *)
(* set_working_variant changes the working variant, and every               *)
(* get_<category> returns the table of the working variant, every           *)
(* update_<category> changes the working variant's tables and no others.    *)
C18_SelectSemantics ==
    [][/\ last'.op = "set_working_variant" =>
            /\ variants' = variants
            /\ IF last'.args.variant \in DOMAIN variants
               THEN last'.err = "none" /\ working' = last'.args.variant
               ELSE last'.err = "UnknownVariantError" /\ working' = working
       /\ working' # working =>
            (last'.op = "set_working_variant" /\ last'.err = "none")
       /\ (last'.op = "get" /\ ~per_unit) =>
            last'.ret = variants[working][last'.cat]
       /\ (last'.op = "update" /\ ~per_unit) =>
            /\ \A v \in DOMAIN variants \ {working} : variants'[v] = variants[v]
            /\ last'.err = "none" =>
                 \A i \in Range(last'.df.index), c \in Range(last'.df.columns) :
                     variants'[working][last'.cat].data[i][c] = last'.df.data[i][c]]_vars

(* v2, a copy of the initial variant, was selected and a load's p0 written: *)
(* v2 holds the written value, the initial variant the old one              *)
C18_Witness ==
    /\ last.op = "update" /\ last.err = "none" /\ last.cat = "LOAD"
    /\ working = "v2"
    /\ HasCol(last.df, "p0")
    /\ variants["v2"]["LOAD"].data["LOAD"]["p0"] = Given("LOAD", "p0")
    /\ variants[INITIAL_VARIANT]["LOAD"].data["LOAD"]["p0"] = R(600)
    /\ Given("LOAD", "p0") # R(600)


----------------------------------------------------------------------------
(* C19: variant isolation.  An update_<category> changes the tables of the  *)
(* working variant and of no other variant, and no read or selection of a   *)
(* variant changes any table: after clone_variant(a, b) with a # b, the     *)
(* updates made while b is the working variant leave every value read after *)
(* set_working_variant(a) as it was before them.                            *)
C19_VariantIsolation ==
    [][/\ last'.op = "update" =>
            /\ DOMAIN variants' = DOMAIN variants
            /\ \A v \in DOMAIN variants \ {working} : variants'[v] = variants[v]
            /\ \A t \in ElementType \ {last'.cat} :
                   variants'[working][t] = variants[working][t]
       /\ last'.op \in {"get", "set_working_variant", "get_working_variant_id",
                        "get_variant_ids"} =>
            variants' = variants
       /\ (last'.op = "get" /\ ~per_unit) =>
            last'.ret = variants'[working'][last'.cat]]_vars

(* clone_variant("InitialState", "v2"), a load written under v2, then       *)
(* set_working_variant("InitialState") and get_loads(): the initial values  *)
(* are read, v2 holds the written ones                                      *)
C19_Witness ==
    /\ last.op = "get" /\ last.cat = "LOAD"
    /\ working = INITIAL_VARIANT
    /\ updates = 1
    /\ last.ret = InitialNetwork["LOAD"]
    /\ "v2" \in DOMAIN variants
    /\ variants["v2"]["LOAD"] # InitialNetwork["LOAD"]


----------------------------------------------------------------------------
----------------------------------------------------------------------------
(* C21: declared-type enforcement.  An update_<category> of a table with a  *)
(* column whose values are not of the column's declared type fails, the     *)
(* engine holds the values of that column it held before, and the values    *)
(* the write primitive was called with for that column are the caller's,    *)
(* not values converted to the declared type.                               *)
MistypedColumns(t, df) ==
    {c \in Range(df.columns) :
        ~Typed(get_series_type(t, c), df.index, Series(df, c))}

----------------------------------------------------------------------------
(* C22: the per-unit context is consulted at call time and nothing scaled   *)
(* is stored.  activate_per_unit and desactivate_per_unit change the flag   *)
(* only, set_nominal_s the power base only, none of them the engine; a      *)
(* get_<category> changes nothing and returns the engine's table scaled     *)
(* with the flag and the power base of that moment (a load's p0 is raw p0 / *)
(* nominal_s when the flag is set, raw p0 otherwise), whatever the order in *)
(* which flag and base were set.                                            *)
C22_ContextAtCallTime ==
    [][/\ last'.op = "activate_per_unit" =>
            (per_unit' /\ UNCHANGED <<nominal_s, variants, working>>)
       /\ last'.op = "desactivate_per_unit" =>
            (~per_unit' /\ UNCHANGED <<nominal_s, variants, working>>)
       /\ last'.op = "set_nominal_s" =>
            UNCHANGED <<per_unit, variants, working>>
       /\ last'.op = "get" =>
            /\ UNCHANGED <<per_unit, nominal_s, variants, working>>
            /\ last'.ret = GetTable(last'.cat)
            /\ last'.cat = "LOAD" =>
                 \A i \in Rows("LOAD") :
                     last'.ret.data[i]["p0"]
                       = IF per_unit THEN Div(Raw("LOAD", i, "p0"), R(nominal_s))
                         ELSE Raw("LOAD", i, "p0")]_vars

(* per-unit on and base 100, in either order, then get_loads: 600 MW is 6 *)
C22_Witness ==
    /\ last.op = "get" /\ last.cat = "LOAD"
    /\ per_unit /\ nominal_s = 100
    /\ Raw("LOAD", "LOAD", "p0") = R(600)
    /\ Got("LOAD", "p0") = R(6)


----------------------------------------------------------------------------
(* C23: voltage bases are never cached and are always raw.  With per-unit   *)
(* enabled, get_buses divides by the nominal_v the voltage-level table of   *)
(* the working variant holds at the call, also after a nominal voltage was  *)
(* changed or another variant selected; get_voltage_levels divides          *)
(* high_voltage_limit and low_voltage_limit by the row's nominal_v and      *)
(* returns nominal_v as the engine holds it.                                *)
C23_VoltageBaseAtCallTime ==
    (per_unit /\ last.op = "get") =>
        /\ last.cat = "BUS" =>
             \A i \in Rows("BUS") :
                 Got(i, "v_mag") = Div(Raw("BUS", i, "v_mag"),
                                       NominalOf("BUS", i, "voltage_level_id"))
        /\ last.cat = "VOLTAGE_LEVEL" =>
             \A i \in Rows("VOLTAGE_LEVEL") :
                 /\ Got(i, "nominal_v") = Raw("VOLTAGE_LEVEL", i, "nominal_v")
                 /\ \A c \in {"high_voltage_limit", "low_voltage_limit"} :
                        Got(i, c) = Div(Raw("VOLTAGE_LEVEL", i, c),
                                        Raw("VOLTAGE_LEVEL", i, "nominal_v"))

(* v2 is a copy in which VL1 was given 200 kV; with v2 selected the bus at  *)
(* 420 kV reads 2.1, while the initial variant still has 400 kV             *)
C23_Witness ==
    /\ per_unit /\ last.op = "get" /\ last.cat = "BUS"
    /\ working = "v2"
    /\ Raw("VOLTAGE_LEVEL", "VL1", "nominal_v") = R(200)
    /\ INITIAL_VARIANT \in DOMAIN variants
    /\ variants[INITIAL_VARIANT]["VOLTAGE_LEVEL"].data["VL1"]["nominal_v"] = R(400)
    /\ Got("B1", "v_mag") = Q(21, 10)


----------------------------------------------------------------------------
(* C24: write frame and read-your-writes.  After update_<category>(table)   *)
(* has returned without error (power base positive), a get_<category> in    *)
(* the same variant and per-unit mode reports, for every row and column of  *)
(* the table, the value written, and for every other cell - other rows,     *)
(* other columns, computed columns such as p, q, i - the value a get        *)
(* reported before the update.                                              *)
C24_ReadYourWrites ==
    [][(last'.op = "update" /\ last'.err = "none" /\ nominal_s > 0) =>
         \E t \in {last'.cat} : \E before \in {GetTable(t)} : \E after \in {GetTable(t)'} :
            /\ after.index = before.index
            /\ after.columns = before.columns
            /\ \A i \in Range(before.index), c \in Range(before.columns) :
                   after.data[i][c]
                     = IF i \in Range(last'.df.index) /\ c \in Range(last'.df.columns)
                       THEN last'.df.data[i][c]
                       ELSE before.data[i][c]]_vars


----------------------------------------------------------------------------
(* C25: two-winding versus three-winding transformers.  Under per-unit a    *)
(* two-winding transformer's r, x, g, b are normalised with the side-2      *)
(* nominal voltage, i1 and rated_u1 with side 1, i2 and rated_u2 with side  *)
(* 2; a three-winding transformer's r_k, x_k, g_k, b_k, i_k and rated_u_k   *)
(* with the nominal voltage of side k, for k = 1, 2, 3.  rated_u columns    *)
(* are divided by the nominal voltage only, whatever the power base.        *)
SideVoltage(t, i, k) == NominalOf(t, i, "voltage_level" \o k \o "_id")

C25_TransformerSides ==
    (per_unit /\ last.op = "get") =>
        /\ last.cat = "TWO_WINDINGS_TRANSFORMER" =>
             \A i \in Rows(last.cat) : \E t \in {last.cat} :
                /\ \A c \in {"r", "x"} :
                     Got(i, c) = Div(Raw(t, i, c), BaseImpedance(SideVoltage(t, i, "2")))
                /\ \A c \in {"g", "b"} :
                     Got(i, c) = Div(Raw(t, i, c), BaseAdmittance(SideVoltage(t, i, "2")))
                /\ \A k \in {"1", "2"} :
                     /\ Got(i, "i" \o k)
                          = Div(Raw(t, i, "i" \o k), BaseCurrent(SideVoltage(t, i, k)))
                     /\ Got(i, "rated_u" \o k)
                          = Div(Raw(t, i, "rated_u" \o k), SideVoltage(t, i, k))
        /\ last.cat = "THREE_WINDINGS_TRANSFORMER" =>
             \A i \in Rows(last.cat), k \in {"1", "2", "3"} : \E t \in {last.cat} :
                /\ \A c \in {"r", "x"} :
                     Got(i, c \o k)
                       = Div(Raw(t, i, c \o k), BaseImpedance(SideVoltage(t, i, k)))
                /\ \A c \in {"g", "b"} :
                     Got(i, c \o k)
                       = Div(Raw(t, i, c \o k), BaseAdmittance(SideVoltage(t, i, k)))
                /\ Got(i, "i" \o k)
                     = Div(Raw(t, i, "i" \o k), BaseCurrent(SideVoltage(t, i, k)))
                /\ Got(i, "rated_u" \o k)
                     = Div(Raw(t, i, "rated_u" \o k), SideVoltage(t, i, k))

(* base 100: leg 3 of T3, at 20 kV, has r3 = 7 ohm = 1750 pu and rated_u3 = *)
(* 21 kV = 1.05 pu; leg 1, at 400 kV, has r1 = 17 ohm = 10.625 pu           *)
C25_Witness ==
    /\ per_unit /\ nominal_s = 100
    /\ last.op = "get" /\ last.cat = "THREE_WINDINGS_TRANSFORMER"
    /\ Got("T3", "r3") = R(1750)
    /\ Got("T3", "rated_u3") = Q(21, 20)
    /\ Got("T3", "r1") = Q(85, 8)


----------------------------------------------------------------------------
(* C26: per-unit disabled is the identity.  While the flag is false, a      *)
(* get_<category> returns the engine's table of the working variant as it   *)
(* is, and an update_<category> has exactly the effect of update_elements   *)
(* on the caller's table (same engine calls with the caller's values, same  *)
(* table afterwards, same error), whatever the power base is.               *)
C26_DisabledIsIdentity ==
    [][~per_unit =>
         /\ last'.op = "get" => last'.ret = get_elements(last'.cat)
         /\ last'.op = "update" =>
              \E direct \in {update_elements(last'.cat, last'.df)} :
                 /\ last'.calls = direct.calls
                 /\ last'.err = direct.table.err
                 /\ variants' = [variants EXCEPT ![working][last'.cat]
                                                   = Raise(direct.table, "none")]
                 /\ \A k \in 1..Len(last'.calls) :
                       /\ last'.calls[k].index = last'.df.index
                       /\ last'.calls[k].values
                            = Series(last'.df, last'.calls[k].series_name)]_vars

(* base 100 and the flag off: 0.05 written to a load's p0 is 0.05 MW *)
C26_Witness ==
    /\ ~per_unit /\ nominal_s = 100
    /\ last.op = "update" /\ last.cat = "LOAD" /\ last.err = "none"
    /\ Given("LOAD", "p0") = Q(1, 20)
    /\ Raw("LOAD", "LOAD", "p0") = Q(1, 20)


----------------------------------------------------------------------------
(* C27: caller table aliasing on write.  With per-unit enabled, after       *)
(* update_loads, update_batteries, update_dangling_lines, update_hvdc_lines,*)
(* update_vsc_converter_stations or update_static_var_compensators on a     *)
(* table that has the power columns the method converts, the caller's table *)
(* object holds those columns multiplied by the power base (SI values) and  *)
(* every other cell as it was; passing the object again to the same method  *)
(* sends the first values times the square of the power base to the engine; *)
(* after update_buses and update_generators the caller's table is as it     *)
(* was passed.                                                              *)
InPlaceTypes ==
    {"LOAD", "BATTERY", "DANGLING_LINE", "HVDC_LINE", "VSC_CONVERTER_STATION",
     "STATIC_VAR_COMPENSATOR"}

ConvertedPower(t) == PowerColumns[t] \cap Range(Updatable(t))

C27_CallerTableAliasing ==
    [][(last'.op = "update" /\ per_unit) =>
         \E t \in {last'.cat}, df \in {last'.df}, after \in {last'.held} :
            /\ t \in {"BUS", "GENERATOR"} => after = df
            /\ (t \in InPlaceTypes /\ ConvertedPower(t) \subseteq Range(df.columns)) =>
                 /\ after.index = df.index
                 /\ after.columns = df.columns
                 /\ \A i \in Range(df.index), c \in Range(df.columns) :
                       after.data[i][c] = IF c \in ConvertedPower(t)
                                          THEN Mul(df.data[i][c], R(nominal_s))
                                          ELSE df.data[i][c]
                 /\ (last.op = "update" /\ last.cat = t /\ df = last.held
                       /\ ConvertedPower(t) \subseteq Range(last.df.columns)) =>
                      \A k \in 1..Len(last'.calls) :
                         \E call \in {last'.calls[k]} :
                            call.series_name \in ConvertedPower(t) =>
                               \A i \in Range(call.index) :
                                  /\ call.values[i]
                                       = Mul(last.df.data[i][call.series_name],
                                             Sq(R(nominal_s)))
                                  /\ (last'.err = "none" /\ i \in Rows(t)) =>
                                       Raw(t, i, call.series_name)' = call.values[i]]_vars

(* base 100: 0.05 passed to update_loads, the caller's table then holds 5,  *)
(* and the same object passed again writes 500 MW                           *)
C27_Witness ==
    /\ per_unit /\ nominal_s = 100
    /\ last.op = "update" /\ last.cat = "LOAD" /\ last.err = "none"
    /\ Given("LOAD", "p0") = R(5)
    /\ last.held.data["LOAD"]["p0"] = R(500)
    /\ Raw("LOAD", "LOAD", "p0") = R(500)


----------------------------------------------------------------------------
(* C28: the per-unit context belongs to the Network object.  clone_variant, *)
(* set_working_variant and remove_variant change neither the flag nor the   *)
(* power base (nor the second object); the control operations of one        *)
(* object change neither the flag and base of the other object nor the      *)
(* variants, the working variant or the handle of any of the two; and a     *)
(* get_<category>, also right after a switch of variant, converts the       *)
(* working variant's table with the object's flag and base as they are      *)
(* (a generator's target_p is raw / nominal_s when the flag is set, raw     *)
(* otherwise).                                                              *)
C28_ContextBelongsToObject ==
    [][/\ last'.op \in {"clone_variant", "set_working_variant", "remove_variant"} =>
            UNCHANGED <<per_unit, nominal_s, peer>>
       /\ last'.op \in Controls => UNCHANGED <<peer, variants, working>>
       /\ last'.op \in {"peer." \o op : op \in Controls} =>
            /\ UNCHANGED <<per_unit, nominal_s, variants, working>>
            /\ peer'._handle = peer._handle
       /\ last'.op = "get" =>
            /\ UNCHANGED <<per_unit, nominal_s, variants, working, peer>>
            /\ last'.ret = GetTable(last'.cat)
            /\ last'.cat = "GENERATOR" =>
                 \A i \in Rows("GENERATOR") :
                     last'.ret.data[i]["target_p"]
                       = IF per_unit
                         THEN Div(Raw("GENERATOR", i, "target_p"), R(nominal_s))
                         ELSE Raw("GENERATOR", i, "target_p")]_vars

(* flag set and base 100 on the first object, 0.05 pu written to variant    *)
(* v2 only, then the initial variant selected: get_generators reads its     *)
(* target_p in per-unit, and the second object is as __init__ left it      *)
C28_Witness ==
    /\ last.op = "get" /\ last.cat = "GENERATOR"
    /\ per_unit /\ nominal_s = 100
    /\ working = INITIAL_VARIANT
    /\ "v2" \in DOMAIN variants
    /\ variants["v2"]["GENERATOR"].data["GEN"]["target_p"] = R(5)
    /\ Raw("GENERATOR", "GEN", "target_p") # R(5)
    /\ Got("GEN", "target_p") = Div(Raw("GENERATOR", "GEN", "target_p"), R(100))
    /\ peer = NewNetwork(PeerHandle)

----------------------------------------------------------------------------
(* C29: conversion precedes dispatch.  When the per-unit conversion of an   *)
(* update_<category> raises (a convertible column is missing), no engine    *)
(* write has been made: the tables of every variant and the working variant *)
(* are as before and the call fails with the conversion's exception; a      *)
(* failed call that did change a table failed in update_elements, after a   *)
(* conversion that succeeded and at least one engine write.                 *)
C29_ConversionPrecedesDispatch ==
    [][last'.op = "update" =>
         \E converted \in {ToEngineUnits(last'.cat, last'.df)} :
            /\ ~Ok(converted) =>
                 /\ UNCHANGED <<variants, working>>
                 /\ last'.calls = <<>>
                 /\ last'.err = converted.err
            /\ (last'.err # "none" /\ variants' # variants) =>
                 /\ Ok(converted)
                 /\ Len(last'.calls) >= 1
                 /\ last'.err = update_elements(last'.cat, converted).table.err]_vars

(* per-unit on, two variants, update_generators with a table without        *)
(* target_p: KeyError, and the generators are as loaded                     *)
C29_Witness ==
    /\ per_unit
    /\ last.op = "update" /\ last.cat = "GENERATOR" /\ last.err = "KeyError"
    /\ "target_p" \notin Range(last.df.columns)
    /\ "target_v" \in Range(last.df.columns)
    /\ "v2" \in DOMAIN variants
    /\ \A v \in DOMAIN variants : variants[v]["GENERATOR"] = InitialNetwork["GENERATOR"]

----------------------------------------------------------------------------
(* C30: serialization does not carry the per-unit context.  The object      *)
(* pickle restores has a handle on a network loaded from the dump of the    *)
(* first object's network and no other attribute: per_unit, nominal_s and   *)
(* sqrt3 are not set, so it is not the object __init__ makes; and as long   *)
(* as per_unit is not set, a get_<category> that reads the flag raises      *)
(* AttributeError and returns no table.                                     *)
C30_RestoredWithoutContext ==
    [][/\ last'.op = "__setstate__" =>
            /\ DOMAIN peer' = {"_handle"}
            /\ peer'._handle.variants[peer'._handle.working] = variants[working]
            /\ \A handle \in {peer'._handle} : peer' # NewNetwork(handle)
            /\ UNCHANGED <<per_unit, nominal_s, variants, working>>
       /\ (last'.op = "peer.get" /\ "per_unit" \notin DOMAIN peer
             /\ last'.cat \in ContextReads) =>
            /\ last'.err = "AttributeError"
            /\ last'.ret = NoFrame]_vars

(* the first object has per-unit on and base 100; the restored one has the  *)
(* handle only, and its get_generators raises                               *)
C30_Witness ==
    /\ per_unit /\ nominal_s = 100
    /\ DOMAIN peer = {"_handle"}
    /\ last.op = "peer.get" /\ last.cat = "GENERATOR"
    /\ last.err = "AttributeError"

====
